---- MODULE Spec2Model ----
(***************************************************************************)
(* Attestation verification and reward execution pipeline of FlexDAO:      *)
(*   contracts/RewardExecutor.sol      the on-ledger replay guard          *)
(*   scripts/attestation_mode.js       the mode selector                   *)
(*   scripts/check_attestation.js      the verification run                *)
(*   scripts/run_reward_flow.js        the reward gate                     *)
(*   scripts/inspect_attestation_tx.js the inspection of one transaction   *)
(* The ledger is a chain of blocks with a pool of pending transactions;    *)
(* each run of a script is a process whose steps are the script's          *)
(* suspension points (its awaits).                                         *)
(***************************************************************************)
EXTENDS Integers, Sequences, FiniteSets, TLC

\* ------------------------------------------------------------------ bounds
\* Highest chain height the model explores.
MaxHeight == 107
\* Most transactions ever sent to RewardExecutor.
MaxTxs == 3
\* Highest chain height a helper applied on its own is given.
MaxFnHeight == 113

\* ------------------------------------------------------- program constants
DEFAULT_CONFIRMATIONS == 12

\* --------------------------------------------------------------- universe
ZeroAddress == "0x0"
Addrs == {"a1", "a2"}
\* Attestation tx hashes: h1 and h2 are mined attestation requests, hx is
\* unknown to the ledger, hp is a transaction that has no receipt yet.
Hashes == {"h1", "h2"}
TxHashes == Hashes \cup {"hx", "hp"}
Procs == {"p1", "p2"}
FdcHub == "hub"
\* What the ledger knows of each attestation transaction: its receipt's block
\* and recipient and that block's timestamp. hx has no transaction, hp has a
\* transaction and no receipt.
AttTx(h) ==
  IF h = "h1"
  THEN [known |-> TRUE, receipt |-> TRUE, blockNumber |-> 94, to |-> FdcHub, timestamp |-> 10]
  ELSE IF h = "h2"
  THEN [known |-> TRUE, receipt |-> TRUE, blockNumber |-> 105, to |-> FdcHub, timestamp |-> 10]
  ELSE IF h = "hp"
  THEN [known |-> TRUE, receipt |-> FALSE, blockNumber |-> 0, to |-> FdcHub, timestamp |-> 0]
  ELSE [known |-> FALSE, receipt |-> FALSE, blockNumber |-> 0, to |-> ZeroAddress, timestamp |-> 0]
Unset == "unset"
NotRead == "?"
NoWorld == "none"

VARIABLES
  owner,                 \* RewardExecutor.owner
  executedAttestations,  \* RewardExecutor.executedAttestations
  events,                \* RewardExecuted events, in emission order
  height,                \* current block number of the chain
  txs,                   \* transactions sent to RewardExecutor, by send order
  chainId,               \* the chain id the ledger reports
  scn,                   \* which runs this behaviour explores
  pc, entry, env, loc, trace, result,   \* per run of a script
  reports,               \* verification reports on disk, by path
  fnName, fnIn, fnOut,   \* a helper applied on its own: its name, arguments, result
  world,                 \* the configuration, artifacts and call outcomes two runs share
  fetch                  \* a run of fetch_da_proof.js

ledgerVars == <<owner, executedAttestations, events, height, txs, chainId>>
procVars == <<pc, entry, env, loc, trace, result, reports>>
fnVars == <<fnName, fnIn, fnOut, fetch>>
vars == <<owner, executedAttestations, events, height, txs, chainId, scn,
          pc, entry, env, loc, trace, result, reports, fnName, fnIn, fnOut, world, fetch>>

\* ---------------------------------------------------------- RewardExecutor
\* A modifier that lets every sender through.
onlyOwner_Anyone(sender) == TRUE
\* modifier onlyOwner
onlyOwner(sender) == sender = owner

\* constructor(_owner): require(_owner != address(0)); owner = _owner
Constructor(_owner) ==
  /\ _owner # ZeroAddress
  /\ owner = _owner
  /\ executedAttestations = [h \in Hashes |-> FALSE]
  /\ events = <<>>

\* executeReward without its replay guard.
NotYetExecuted_NoGuard(attestationTxHash) == TRUE
\* The replay guard of executeReward: require(!executedAttestations[h]).
NotYetExecuted(attestationTxHash) == ~executedAttestations[attestationTxHash]

\* Does executeReward(attestationTxHash, ...) sent by sender revert?
executeRewardReverts(sender, attestationTxHash) ==
  ~(onlyOwner(sender) /\ NotYetExecuted(attestationTxHash))

\* Does setOwner(_owner) sent by sender revert?
setOwnerReverts(sender, _owner) ==
  ~(onlyOwner(sender) /\ _owner # ZeroAddress)

\* Effect of one transaction tx (index i of txs) executed by the contract.
executeReward(i, tx) ==
  IF executeRewardReverts(tx.from, tx.arg)
  THEN UNCHANGED <<owner, executedAttestations, events>>
  ELSE /\ executedAttestations' = [executedAttestations EXCEPT ![tx.arg] = TRUE]
       /\ events' = Append(events, [attestationTxHash |-> tx.arg, tx |-> i])
       /\ UNCHANGED owner

\* A transfer of ownership that also clears the executed attestations.
setOwner_ClearsRecords(i, tx) ==
  IF setOwnerReverts(tx.from, tx.arg)
  THEN UNCHANGED <<owner, executedAttestations, events>>
  ELSE /\ owner' = tx.arg
       /\ executedAttestations' = [h \in Hashes |-> FALSE]
       /\ UNCHANGED events
\* setOwner(_owner) executed as transaction i
setOwner(i, tx) ==
  IF setOwnerReverts(tx.from, tx.arg)
  THEN UNCHANGED <<owner, executedAttestations, events>>
  ELSE /\ owner' = tx.arg
       /\ UNCHANGED <<executedAttestations, events>>

Reverts(tx) ==
  IF tx.fn = "executeReward" THEN executeRewardReverts(tx.from, tx.arg)
  ELSE setOwnerReverts(tx.from, tx.arg)

\* ------------------------------------------------------------------ ledger
\* A transaction is sent (by a run's signer, or by a wallet outside the runs).
NewTx(fn, from, arg, by) ==
  [fn |-> fn, from |-> from, arg |-> arg, by |-> by,
   status |-> "pending", blockNumber |-> 0]

\* A wallet outside the scripts sends executeReward (the externally-signed path).
WalletSendsExecuteReward(a, h) ==
  /\ Len(txs) < MaxTxs
  /\ txs' = Append(txs, NewTx("executeReward", a, h, "wallet"))
  /\ UNCHANGED <<owner, executedAttestations, events, height, chainId, scn, world, fnVars>>
  /\ UNCHANGED procVars

WalletSendsSetOwner(a, n) ==
  /\ Len(txs) < MaxTxs
  /\ txs' = Append(txs, NewTx("setOwner", a, n, "wallet"))
  /\ UNCHANGED <<owner, executedAttestations, events, height, chainId, scn, world, fnVars>>
  /\ UNCHANGED procVars

\* A pending transaction is included in the next block and executed.
Mine(i) ==
  /\ i \in 1..Len(txs)
  /\ txs[i].status = "pending"
  /\ height < MaxHeight
  /\ height' = height + 1
  /\ txs' = [txs EXCEPT ![i].status = IF Reverts(txs[i]) THEN "reverted" ELSE "success",
                        ![i].blockNumber = height + 1]
  /\ IF txs[i].fn = "executeReward" THEN executeReward(i, txs[i]) ELSE setOwner(i, txs[i])
  /\ UNCHANGED <<chainId, scn, world, fnVars>>
  /\ UNCHANGED procVars

\* A block without any RewardExecutor transaction is appended.
AdvanceHeight ==
  /\ scn \notin {"helpers", "twice", "fetch"}
  /\ height < MaxHeight
  /\ height' = height + 1
  /\ UNCHANGED <<owner, executedAttestations, events, txs, chainId, scn, world, fnVars>>
  /\ UNCHANGED procVars

\* ----------------------------------------------------------- mode selector
SIMULATION_VALUES == {"1", "true", "yes", "on", "simulation"}
REAL_VALUES == {"0", "false", "no", "off", "real"}

\* String(value).trim().toLowerCase() on the environment values the model draws.
TrimLower(s) ==
  CASE s = " TRUE " -> "true"
    [] s = "Yes" -> "yes"
    [] s = "OFF" -> "off"
    [] s = "Real" -> "real"
    [] s = "SIMULATION" -> "simulation"
    [] s = " simulation " -> "simulation"
    [] s = "MetaMask" -> "metamask"
    [] s = " " -> ""
    [] OTHER -> s

\* "true" | "false" | "null"
parseBooleanLike(value) ==
  IF value = Unset THEN "null"
  ELSE LET normalized == TrimLower(value) IN
       IF normalized \in SIMULATION_VALUES THEN "true"
       ELSE IF normalized \in REAL_VALUES THEN "false"
       ELSE "null"

\* A selector that lets ATTESTATION_MODE decide before USE_SIMULATION.
getAttestationMode_ModeFirst(USE_SIMULATION, ATTESTATION_MODE) ==
  LET mode == TrimLower(IF ATTESTATION_MODE \in {Unset, ""} THEN "real"
                        ELSE ATTESTATION_MODE) IN
  IF mode = "simulation" THEN "simulation"
  ELSE IF parseBooleanLike(USE_SIMULATION) = "true" THEN "simulation" ELSE "real"
getAttestationMode(USE_SIMULATION, ATTESTATION_MODE) ==
  LET simulationFlag == parseBooleanLike(USE_SIMULATION) IN
  IF simulationFlag = "true" THEN "simulation"
  ELSE IF simulationFlag = "false" THEN "real"
  ELSE LET mode == TrimLower(IF ATTESTATION_MODE \in {Unset, ""} THEN "real"
                             ELSE ATTESTATION_MODE) IN
       IF mode = "simulation" THEN "simulation" ELSE "real"

\* An entry point that does not assert the mode.
assertRealMode_Skipped(USE_SIMULATION, ATTESTATION_MODE) == TRUE
\* assertRealMode passes (does not throw)
assertRealMode(USE_SIMULATION, ATTESTATION_MODE) ==
  getAttestationMode(USE_SIMULATION, ATTESTATION_MODE) = "real"

\* assertSimulationMode passes (does not throw)
assertSimulationMode(USE_SIMULATION, ATTESTATION_MODE) ==
  getAttestationMode(USE_SIMULATION, ATTESTATION_MODE) = "simulation"

\* ------------------------------------------------- check_attestation helpers
\* Number(process.env.X || dflt) on the values the model draws.
ToNumber(s) == CASE s = "2" -> 2 [] s = "12" -> 12 [] s = "114" -> 114 [] s = "16" -> 16
\* Number(process.env.CONFIRMATIONS || DEFAULT_CONFIRMATIONS)
confirmationsRequiredOf(CONFIRMATIONS) ==
  IF CONFIRMATIONS \in {Unset, ""} THEN DEFAULT_CONFIRMATIONS ELSE ToNumber(CONFIRMATIONS)

\* The subtraction with its operands exchanged.
Confirmations_Reversed(latestBlock, blockNumber) == blockNumber - latestBlock + 1
\* The block distance alone, not counting the transaction's own block.
Confirmations_NoPlusOne(latestBlock, blockNumber) == latestBlock - blockNumber
\* latestBlock - receipt.blockNumber + 1
Confirmations(latestBlock, blockNumber) == latestBlock - blockNumber + 1

\* A strict comparison in place of >=.
Confirmed_Strict(confirmations, confirmationsRequired) == confirmations > confirmationsRequired
\* confirmations >= confirmationsRequired
Confirmed(confirmations, confirmationsRequired) == confirmations >= confirmationsRequired

\* x.toLowerCase() on the digests the model draws.
LowerHex(s) == CASE s = "0xABC" -> "0xabc" [] s = "0xDEF" -> "0xdef" [] OTHER -> s

\* payloadHashValid that ignores the comparison with the submission's digest.
payloadHashValidOf_ExpectedOnly(micMatchesExpected, micMatchesSubmission) ==
  IF micMatchesExpected = "false" THEN FALSE ELSE TRUE
\* payloadHashValid of validatePayloadHash, from the two tri-state comparisons
payloadHashValidOf(micMatchesExpected, micMatchesSubmission) ==
  IF micMatchesExpected = "false" \/ micMatchesSubmission = "false" THEN FALSE ELSE TRUE

\* validatePayloadHash({apiResponsePath, expectedMic, submissionData}):
\*   apiDigest      sha256 of the data artifact, "none" when the file is absent
\*   expectedMic    EXPECTED_MIC, Unset when not configured
\*   submissionMic  submissionData.computedMic, "none" when absent
validatePayloadHash(apiDigest, expectedMic, submissionMic) ==
  LET hasFile == apiDigest # "none"
      computedMic == IF hasFile THEN apiDigest ELSE "null"
      micMatchesExpected ==
        IF hasFile /\ expectedMic \notin {Unset, ""}
        THEN (IF LowerHex(computedMic) = LowerHex(expectedMic) THEN "true" ELSE "false")
        ELSE "null"
      micMatchesSubmission ==
        IF hasFile /\ submissionMic \notin {"none", ""}
        THEN (IF LowerHex(computedMic) = LowerHex(submissionMic) THEN "true" ELSE "false")
        ELSE "null"
  IN [computedMic |-> computedMic,
      micMatchesExpected |-> micMatchesExpected,
      micMatchesSubmission |-> micMatchesSubmission,
      payloadHashValid |-> payloadHashValidOf(micMatchesExpected, micMatchesSubmission)]

\* Date.parse on the range segments the model draws: milliseconds, or -1 for NaN.
DateParse(chunk) ==
  CASE chunk = "2026-01-31T00:00Z" -> 100
    [] chunk = "2026-02-07T00:00Z" -> 200
    [] OTHER -> -1

NoRange == [present |-> FALSE, startMs |-> 0, endMs |-> 0, valid |-> FALSE]

\* A range that accepts an end equal to its start.
parseRequestRange_EndNotBeforeStart(url) ==
  IF ~url.marker THEN NoRange
  ELSE IF Len(url.chunks) < 2 THEN NoRange
  ELSE LET start == DateParse(url.chunks[1])
           end == DateParse(url.chunks[2]) IN
       IF start = -1 \/ end = -1 THEN NoRange
       ELSE [present |-> TRUE, startMs |-> start, endMs |-> end, valid |-> end >= start]
\* parseRequestRange(url); a url is [marker: does it contain "/intensity/",
\* chunks: the "/"-separated segments that follow the marker]
parseRequestRange(url) ==
  IF ~url.marker THEN NoRange
  ELSE IF Len(url.chunks) < 2 THEN NoRange
  ELSE LET start == DateParse(url.chunks[1])
           end == DateParse(url.chunks[2]) IN
       IF start = -1 \/ end = -1 THEN NoRange
       ELSE [present |-> TRUE, startMs |-> start, endMs |-> end, valid |-> end > start]

\* A time-window check that demands a well-formed range.
timestampValidOf_RangeRequired(lowestUsedTimestamp, blockTimestamp, timestampRange) ==
  /\ (lowestUsedTimestamp = 0 \/ blockTimestamp >= lowestUsedTimestamp)
  /\ (timestampRange.present /\ timestampRange.valid)
\* timestampValid of checkAttestation
timestampValidOf(lowestUsedTimestamp, blockTimestamp, timestampRange) ==
  /\ (lowestUsedTimestamp = 0 \/ blockTimestamp >= lowestUsedTimestamp)
  /\ (~timestampRange.present \/ timestampRange.valid)

\* -------------------------------------------------- inputs the runs draw
\* A behaviour explores either one run with every input ("single") or two
\* concurrent runs of the reward gate on a healthy attestation ("pair").
Single == scn = "single"
\* ... or two runs of one verification command, one after the other, on the
\* same configuration, artifacts and ledger ("twice").
Twice == scn = "twice"
\* ... or the reward gate invoked again to poll a reward transaction that a
\* wallet signed, while the chain grows ("repoll").
Repoll == scn = "repoll"
\* In both, the runs read one configuration and one set of artifacts.
OneWorld == Twice \/ Repoll

\* <<USE_SIMULATION, ATTESTATION_MODE>>
ModeEnvs ==
  IF OneWorld THEN {world.mode} ELSE
  IF Single THEN {<<Unset, Unset>>, <<"1", Unset>>, <<Unset, " simulation ">>,
                  <<"0", "simulation">>}
  ELSE {<<Unset, Unset>>}
\* FDC_ATTESTATION_CONTRACT: the hub, another contract, or not set
FdcContractEnvs ==
  IF OneWorld THEN {world.FDC_ATTESTATION_CONTRACT} ELSE
  IF Single THEN {Unset, FdcHub, "other"} ELSE {FdcHub}
ChainIdEnvs ==
  IF OneWorld THEN {world.FLARE_CHAIN_ID} ELSE
  IF Single THEN {"114", Unset} ELSE {"114"}
TxHashEnvs ==
  IF OneWorld THEN {world.ATTESTATION_TX_HASH} ELSE
  IF Single THEN {Unset, "h1", "h2", "hx", "hp"} ELSE {"h1", "h2"}
ConfirmationsEnvs ==
  IF OneWorld THEN {world.CONFIRMATIONS} ELSE
  IF Single THEN {Unset, "2"} ELSE {"2"}
ExpectedMics ==
  IF OneWorld THEN {world.EXPECTED_MIC} ELSE
  IF Single THEN {Unset, "0xABC", "0xdef"} ELSE {Unset}
ApiDigests ==
  IF OneWorld THEN {world.apiDigest} ELSE
  IF Single THEN {"none", "0xabc"} ELSE {"0xabc"}

\* request_submission.json
NoSubmission == [exists |-> FALSE, txHash |-> "", computedMic |-> ""]
NotReadSubmission == [exists |-> FALSE, txHash |-> NotRead, computedMic |-> NotRead]
SubmissionFiles ==
  IF OneWorld THEN {world.submission} ELSE
  IF Single
  THEN {NoSubmission,
        [exists |-> TRUE, txHash |-> "h1", computedMic |-> "0xabc"],
        [exists |-> TRUE, txHash |-> "h1", computedMic |-> "0xdef"],
        [exists |-> TRUE, txHash |-> "", computedMic |-> ""]}
  ELSE {[exists |-> TRUE, txHash |-> "h1", computedMic |-> "0xabc"]}

\* da_proof.json: the attestation transaction whose request the proof answers
\* (the file's requestBytes), the claim's lower timestamp bound and its
\* request url
GoodUrl == [marker |-> TRUE, chunks |-> <<"2026-01-31T00:00Z", "2026-02-07T00:00Z">>]
InvertedUrl == [marker |-> TRUE, chunks |-> <<"2026-02-07T00:00Z", "2026-01-31T00:00Z">>]
NoMarkerUrl == [marker |-> FALSE, chunks |-> <<>>]
NoProof == [exists |-> FALSE, requestOf |-> "", lowestUsedTimestamp |-> 0, url |-> NoMarkerUrl]
ProofFiles ==
  IF OneWorld THEN {world.proof} ELSE
  IF Single
  THEN {NoProof,
        [exists |-> TRUE, requestOf |-> "h1", lowestUsedTimestamp |-> 0, url |-> GoodUrl],
        [exists |-> TRUE, requestOf |-> "h1", lowestUsedTimestamp |-> 20, url |-> GoodUrl],
        [exists |-> TRUE, requestOf |-> "h1", lowestUsedTimestamp |-> 0, url |-> InvertedUrl],
        [exists |-> TRUE, requestOf |-> "h1", lowestUsedTimestamp |-> 5, url |-> NoMarkerUrl]}
  ELSE {[exists |-> TRUE, requestOf |-> "h1", lowestUsedTimestamp |-> 0, url |-> GoodUrl]}

\* What a call of the verification contract does: returns a boolean, or throws
\* because the result does not decode under the called signature, or throws
\* for another reason (the RPC endpoint fails).
CallErrors == {"decode_error", "rpc_error"}
PrimaryOutcomes ==
  IF OneWorld THEN {world.primary} ELSE
  IF Single THEN {"true", "false"} \cup CallErrors ELSE {"decode_error"}
SecondaryOutcomes ==
  IF OneWorld THEN {world.secondary} ELSE
  IF Single THEN {"true", "false"} \cup CallErrors ELSE {"true"}

\* ---------------------------------------------------------------- the runs
\* What inspect_attestation_tx.js knows before it calls checkAttestation.
NoInspection ==
  [txHash |-> "", blockNumber |-> 0, confirmations |-> 0, confirmationsRequired |-> 0,
   confirmed |-> FALSE]
NoAttestation ==
  [txHash |-> "", blockNumber |-> 0, confirmationsRequired |-> 0, confirmations |-> 0,
   confirmed |-> FALSE, verificationPassed |-> FALSE, verificationFunction |-> "",
   payloadHashValid |-> FALSE, timestampValid |-> FALSE]
InitEnv ==
  [USE_SIMULATION |-> NotRead, ATTESTATION_MODE |-> NotRead, FLARE_CHAIN_ID |-> NotRead,
   FDC_ATTESTATION_CONTRACT |-> NotRead,
   ATTESTATION_TX_HASH |-> NotRead, CONFIRMATIONS |-> NotRead, DRY_RUN |-> NotRead,
   SIGNER_MODE |-> NotRead, REWARD_FUNCTION_ARGS_JSON |-> NotRead,
   FLARE_SIGNER_KEY |-> NotRead, REWARD_TX_HASH |-> -1]
InitLoc ==
  [txHash |-> "", blockNumber |-> 0, latestBlock |-> 0, confirmationsRequired |-> 0,
   confirmations |-> 0, confirmed |-> FALSE,
   verificationPassed |-> FALSE, verificationFunction |-> "verifyJsonApi",
   verificationError |-> "null",
   submission |-> NotReadSubmission, proof |-> NoProof, attestation |-> NoAttestation, rewardTx |-> 0,
   inspection |-> NoInspection]
NoResult == [outcome |-> "none", error |-> "", kind |-> "", rewardTx |-> 0]

Avail(v, dom) == IF v = NotRead THEN dom ELSE {v}

\* The run p throws err: the entry point prints it and exits 1.
Throw(p, err) ==
  /\ pc' = [pc EXCEPT ![p] = "failed"]
  /\ result' = [result EXCEPT ![p] = [outcome |-> "threw", error |-> err,
                                      kind |-> "", rewardTx |-> 0]]
\* The run p returns: the entry point exits 0.
Return(p, kind, rewardTx) ==
  /\ pc' = [pc EXCEPT ![p] = "done"]
  /\ result' = [result EXCEPT ![p] = [outcome |-> "returned", error |-> "",
                                      kind |-> kind, rewardTx |-> rewardTx]]
\* checkAttestation throws err in the run p: inspect_attestation_tx.js catches
\* it (lines 101-114), the other entry points let it end the run.
CaThrow(p, err) ==
  IF entry[p] = "inspect"
  THEN /\ pc' = [pc EXCEPT ![p] = "ins_report"]
       /\ result' = [result EXCEPT ![p] = [outcome |-> "caught", error |-> err,
                                           kind |-> "", rewardTx |-> 0]]
  ELSE Throw(p, err)
Goto(p, label) ==
  /\ pc' = [pc EXCEPT ![p] = label]
  /\ UNCHANGED result
Did(p, ops) == trace' = [trace EXCEPT ![p] = @ \o ops]

\* runRewardFlow, lines 108-115: the mode assertion
RfAssert(p) ==
  /\ pc[p] = "rf_assert"
  /\ \E m \in ModeEnvs :
       /\ env' = [env EXCEPT ![p].USE_SIMULATION = m[1], ![p].ATTESTATION_MODE = m[2]]
       /\ IF assertRealMode(m[1], m[2]) THEN Goto(p, "ca_assert") ELSE Throw(p, "ModeError")
  /\ UNCHANGED <<entry, loc, trace, reports, scn, world, fnVars>>
  /\ UNCHANGED ledgerVars

\* checkAttestation, line 270: the mode assertion
CaAssert(p) ==
  /\ pc[p] = "ca_assert"
  /\ \E m \in ModeEnvs :
       /\ env[p].USE_SIMULATION \in {NotRead, m[1]}
       /\ env[p].ATTESTATION_MODE \in {NotRead, m[2]}
       /\ env' = [env EXCEPT ![p].USE_SIMULATION = m[1], ![p].ATTESTATION_MODE = m[2]]
       /\ IF assertRealMode(m[1], m[2]) THEN Goto(p, "ca_config") ELSE CaThrow(p, "ModeError")
  /\ UNCHANGED <<entry, loc, trace, reports, scn, world, fnVars>>
  /\ UNCHANGED ledgerVars

\* txHash of checkAttestation, lines 281-291: "" stands for null
resolveTxHash(ATTESTATION_TX_HASH, submission) ==
  IF ATTESTATION_TX_HASH \notin {Unset, ""} THEN ATTESTATION_TX_HASH
  ELSE IF ~submission.exists THEN ""
  ELSE submission.txHash

\* checkAttestation, lines 272-309: configuration and artifact paths
CaConfig(p) ==
  /\ pc[p] = "ca_config"
  /\ \E cid \in Avail(env[p].FLARE_CHAIN_ID, ChainIdEnvs) :
       IF cid = Unset
       THEN /\ env' = [env EXCEPT ![p].FLARE_CHAIN_ID = cid]
            /\ CaThrow(p, "ConfigurationError")
            /\ UNCHANGED <<loc, trace>>
       ELSE \E fdc \in Avail(env[p].FDC_ATTESTATION_CONTRACT, FdcContractEnvs) :
            IF fdc = Unset
            THEN /\ env' = [env EXCEPT ![p].FLARE_CHAIN_ID = cid,
                                       ![p].FDC_ATTESTATION_CONTRACT = fdc]
                 /\ CaThrow(p, "ConfigurationError")
                 /\ UNCHANGED <<loc, trace>>
            ELSE
            \E th \in Avail(env[p].ATTESTATION_TX_HASH, TxHashEnvs) :
            \E sub \in (IF th = Unset THEN SubmissionFiles ELSE {NotReadSubmission}) :
              LET txHash == resolveTxHash(th, sub) IN
              /\ env' = [env EXCEPT ![p].FLARE_CHAIN_ID = cid,
                                    ![p].FDC_ATTESTATION_CONTRACT = fdc,
                                    ![p].ATTESTATION_TX_HASH = th]
              /\ loc' = [loc EXCEPT ![p].txHash = txHash, ![p].submission = sub]
              /\ Did(p, IF sub.exists THEN <<"readSubmission">> ELSE <<>>)
              /\ IF txHash = "" THEN CaThrow(p, "TxHashMissing") ELSE Goto(p, "ca_network")
  /\ UNCHANGED <<entry, reports, scn, world, fnVars>>
  /\ UNCHANGED ledgerVars

\* A run that does not compare the chain id.
chainMismatch_Never(reported, FLARE_CHAIN_ID) == FALSE
\* network.chainId !== expectedChainId
chainMismatch(reported, FLARE_CHAIN_ID) == reported # ToNumber(FLARE_CHAIN_ID)

\* checkAttestation, lines 311-317: chain identity
CaNetwork(p) ==
  /\ pc[p] = "ca_network"
  /\ Did(p, <<"getNetwork">>)
  /\ IF chainMismatch(chainId, env[p].FLARE_CHAIN_ID)
     THEN CaThrow(p, "ChainMismatch")
     ELSE Goto(p, "ca_tx")
  /\ UNCHANGED <<entry, env, loc, reports, scn, world, fnVars>>
  /\ UNCHANGED ledgerVars

\* checkAttestation, lines 319-330: the transaction, its receipt and its target
CaTx(p) ==
  /\ pc[p] = "ca_tx"
  /\ Did(p, <<"getTransaction", "getTransactionReceipt">>)
  /\ LET t == AttTx(loc[p].txHash) IN
     IF ~t.known \/ ~t.receipt
     THEN CaThrow(p, "TransactionOrReceiptMissing") /\ UNCHANGED loc
     ELSE IF t.to # env[p].FDC_ATTESTATION_CONTRACT
     THEN CaThrow(p, "TargetMismatch") /\ UNCHANGED loc
     ELSE /\ Goto(p, "ca_block")
          /\ loc' = [loc EXCEPT ![p].blockNumber = t.blockNumber]
  /\ UNCHANGED <<entry, env, reports, scn, world, fnVars>>
  /\ UNCHANGED ledgerVars

\* checkAttestation, lines 278-280 and 332-352: confirmations, logs, request fee
CaBlock(p) ==
  /\ pc[p] = "ca_block"
  /\ Did(p, <<"getBlockNumber", "getLogs", "requestFee">>)
  /\ \E c \in Avail(env[p].CONFIRMATIONS, ConfirmationsEnvs) :
       LET confirmationsRequired == confirmationsRequiredOf(c)
           confirmations == Confirmations(height, loc[p].blockNumber) IN
       /\ env' = [env EXCEPT ![p].CONFIRMATIONS = c]
       /\ loc' = [loc EXCEPT ![p].latestBlock = height,
                             ![p].confirmationsRequired = confirmationsRequired,
                             ![p].confirmations = confirmations,
                             ![p].confirmed = Confirmed(confirmations, confirmationsRequired)]
  /\ Goto(p, "ca_proof")
  /\ UNCHANGED <<entry, reports, scn, world, fnVars>>
  /\ UNCHANGED ledgerVars

\* checkAttestation, lines 354-360: the proof artifact
CaProof(p) ==
  /\ pc[p] = "ca_proof"
  /\ \E pf \in ProofFiles :
       IF ~pf.exists
       THEN CaThrow(p, "ProofMissing") /\ UNCHANGED <<loc, trace>>
       ELSE /\ Goto(p, "ca_verify")
            /\ loc' = [loc EXCEPT ![p].proof = pf]
            /\ Did(p, <<"readProof">>)
  /\ UNCHANGED <<entry, env, reports, scn, world, fnVars>>
  /\ UNCHANGED ledgerVars

\* How a call of the verification contract ended, as the run's log records it.
Ended(outcome) ==
  CASE outcome = "true" -> "returned true"
    [] outcome = "false" -> "returned false"
    [] outcome = "decode_error" -> "threw decode_error"
    [] outcome = "rpc_error" -> "threw rpc_error"
Threw == {"threw decode_error", "threw rpc_error"}

\* A catch that handles the decode mismatch only.
primaryCaught_DecodeOnly(outcome) == outcome = "decode_error"
\* A catch that also takes a returned false for a failure to try again.
primaryCaught_AndNegative(outcome) == outcome # "true"
\* What the catch of line 371 catches: every error the primary call throws.
primaryCaught(outcome) == outcome \in CallErrors

\* checkAttestation, lines 362-371: the primary verification signature
CaVerifyPrimary(p) ==
  /\ pc[p] = "ca_verify"
  /\ \E r \in PrimaryOutcomes :
       /\ Did(p, <<"verifyJsonApi", Ended(r)>>)
       /\ IF primaryCaught(r)
          THEN /\ loc' = [loc EXCEPT ![p].verificationError = r]
               /\ Goto(p, "ca_fallback")
          ELSE IF r \in CallErrors
          THEN /\ loc' = [loc EXCEPT ![p].verificationError = r]
               /\ CaThrow(p, r)
          ELSE /\ loc' = [loc EXCEPT ![p].verificationPassed = (r = "true")]
               /\ Goto(p, "ca_hash")
  /\ UNCHANGED <<entry, env, reports, scn, world, fnVars>>
  /\ UNCHANGED ledgerVars

\* checkAttestation, lines 372-385: the secondary signature; when it throws too
\* the primary's error is rethrown
CaVerifyFallback(p) ==
  /\ pc[p] = "ca_fallback"
  /\ \E r \in SecondaryOutcomes :
       /\ Did(p, <<"verifyWeb2Json", Ended(r)>>)
       /\ IF r \in CallErrors
          THEN CaThrow(p, loc[p].verificationError) /\ UNCHANGED loc
          ELSE /\ loc' = [loc EXCEPT ![p].verificationPassed = (r = "true"),
                                     ![p].verificationFunction = "verifyWeb2Json",
                                     ![p].verificationError = "null"]
               /\ Goto(p, "ca_hash")
  /\ UNCHANGED <<entry, env, reports, scn, world, fnVars>>
  /\ UNCHANGED ledgerVars

\* outPath of checkAttestation, lines 426-428
DefaultOutPath == "check_attestation_result.json"

\* A result that counts its confirmations on top of the report already on disk.
attestationResult_OnTopOfPriorReport(l, payloadHash, timestampValid) ==
  [txHash |-> l.txHash, blockNumber |-> l.blockNumber,
   confirmationsRequired |-> l.confirmationsRequired,
   confirmations |-> l.confirmations + reports[DefaultOutPath].confirmations,
   confirmed |-> l.confirmed,
   verificationPassed |-> l.verificationPassed,
   verificationFunction |-> l.verificationFunction,
   payloadHashValid |-> payloadHash.payloadHashValid,
   timestampValid |-> timestampValid]
\* The result object of checkAttestation, lines 402-424 (its verdict fields).
attestationResult(l, payloadHash, timestampValid) ==
  [txHash |-> l.txHash, blockNumber |-> l.blockNumber,
   confirmationsRequired |-> l.confirmationsRequired,
   confirmations |-> l.confirmations, confirmed |-> l.confirmed,
   verificationPassed |-> l.verificationPassed,
   verificationFunction |-> l.verificationFunction,
   payloadHashValid |-> payloadHash.payloadHashValid,
   timestampValid |-> timestampValid]



\* checkAttestation, lines 306-309 and 387-442: payload integrity, the time
\* window (the block read is of a mined block, which never changes), the
\* report written and the result returned
CaReport(p) ==
  /\ pc[p] = "ca_hash"
  /\ \E api \in ApiDigests, expectedMic \in ExpectedMics :
     \E sub \in (IF loc[p].submission = NotReadSubmission THEN SubmissionFiles
                 ELSE {loc[p].submission}) :
       LET payloadHash ==
             validatePayloadHash(api, expectedMic,
                                 IF sub.exists THEN sub.computedMic ELSE "none")
           timestampValid ==
             timestampValidOf(loc[p].proof.lowestUsedTimestamp,
                              AttTx(loc[p].txHash).timestamp,
                              parseRequestRange(loc[p].proof.url))
           res == attestationResult(loc[p], payloadHash, timestampValid) IN
       /\ Did(p, (IF sub.exists THEN <<"readSubmission">> ELSE <<>>)
                 \o (IF api # "none" THEN <<"readApiResponse">> ELSE <<>>)
                 \o <<"getBlock", "writeReport">>)
       /\ reports' = [reports EXCEPT ![DefaultOutPath] = res]
       /\ loc' = [loc EXCEPT ![p] = [InitLoc EXCEPT !.attestation = res,
                                                    !.inspection = loc[p].inspection]]
  /\ IF entry[p] = "reward" THEN Goto(p, "rf_gate")
     ELSE IF entry[p] = "inspect" THEN Goto(p, "ins_report")
     ELSE Return(p, "checked", 0)
  /\ UNCHANGED <<entry, env, scn, world, fnVars>>
  /\ UNCHANGED ledgerVars

\* JavaScript truthiness of a verdict that is "true", "false" or "null".
Truthy(v) == v = "true"
Tri(b) == IF b THEN "true" ELSE "false"

\* ------------------------------------------------------ inspect_attestation_tx
\* main, line 66: the mode assertion
InsAssert(p) ==
  /\ pc[p] = "ins_assert"
  /\ \E m \in ModeEnvs :
       /\ env' = [env EXCEPT ![p].USE_SIMULATION = m[1], ![p].ATTESTATION_MODE = m[2]]
       /\ IF assertRealMode(m[1], m[2]) THEN Goto(p, "ins_config") ELSE Throw(p, "ModeError")
  /\ UNCHANGED <<entry, loc, trace, reports, scn, world, fnVars>>
  /\ UNCHANGED ledgerVars

\* main, lines 68-71: the required configuration
InsConfig(p) ==
  /\ pc[p] = "ins_config"
  /\ \E cid \in ChainIdEnvs :
       IF cid = Unset
       THEN /\ env' = [env EXCEPT ![p].FLARE_CHAIN_ID = cid]
            /\ Throw(p, "ConfigurationError")
            /\ UNCHANGED loc
       ELSE \E th \in TxHashEnvs :
            IF th \in {Unset, ""}
            THEN /\ env' = [env EXCEPT ![p].FLARE_CHAIN_ID = cid,
                                       ![p].ATTESTATION_TX_HASH = th]
                 /\ Throw(p, "ConfigurationError")
                 /\ UNCHANGED loc
            ELSE \E c \in ConfirmationsEnvs :
                 /\ env' = [env EXCEPT ![p].FLARE_CHAIN_ID = cid,
                                       ![p].ATTESTATION_TX_HASH = th,
                                       ![p].CONFIRMATIONS = c]
                 /\ loc' = [loc EXCEPT ![p].inspection.txHash = th,
                                       ![p].inspection.confirmationsRequired =
                                         confirmationsRequiredOf(c)]
                 /\ Goto(p, "ins_network")
  /\ UNCHANGED <<entry, trace, reports, scn, world, fnVars>>
  /\ UNCHANGED ledgerVars

\* main, lines 73-79: chain identity
InsNetwork(p) ==
  /\ pc[p] = "ins_network"
  /\ Did(p, <<"getNetwork">>)
  /\ IF chainMismatch(chainId, env[p].FLARE_CHAIN_ID)
     THEN Throw(p, "ChainMismatch")
     ELSE Goto(p, "ins_tx")
  /\ UNCHANGED <<entry, env, loc, reports, scn, world, fnVars>>
  /\ UNCHANGED ledgerVars

\* main, lines 81-99: the transaction, its receipt and its confirmations;
\* FDC_ATTESTATION_CONTRACT, when not set, is set to the transaction's
\* recipient in this process's environment; then checkAttestation is called
InsTx(p) ==
  /\ pc[p] = "ins_tx"
  /\ LET t == AttTx(loc[p].inspection.txHash)
         confirmations == Confirmations(height, t.blockNumber) IN
     IF ~t.known
     THEN /\ Did(p, <<"getTransaction">>)
          /\ Throw(p, "TransactionNotFound")
          /\ UNCHANGED <<loc, env>>
     ELSE IF ~t.receipt
     THEN /\ Did(p, <<"getTransaction", "getTransactionReceipt">>)
          /\ Throw(p, "ReceiptPending")
          /\ UNCHANGED <<loc, env>>
     ELSE /\ Did(p, <<"getTransaction", "getTransactionReceipt", "getBlockNumber">>)
          /\ \E fdc \in FdcContractEnvs :
               env' = [env EXCEPT ![p].FDC_ATTESTATION_CONTRACT =
                                    IF fdc \in {Unset, ""} THEN t.to ELSE fdc]
          /\ loc' = [loc EXCEPT ![p].inspection.blockNumber = t.blockNumber,
                                ![p].inspection.confirmations = confirmations,
                                ![p].inspection.confirmed =
                                  Confirmed(confirmations,
                                            loc[p].inspection.confirmationsRequired)]
          /\ Goto(p, "ca_assert")
  /\ UNCHANGED <<entry, reports, scn, world, fnVars>>
  /\ UNCHANGED ledgerVars

\* outPath of main, lines 150-152
InspectOutPath == "inspect_attestation_result.json"

\* main, lines 101-154: the outcome of checkAttestation (its verdicts, or the
\* error it threw and null verdicts) and the inspection report
InsReport(p) ==
  /\ pc[p] = "ins_report"
  /\ LET caught == result[p].outcome = "caught"
         a == loc[p].attestation
         i == loc[p].inspection IN
     reports' = [reports EXCEPT ![InspectOutPath] =
       [txHash |-> i.txHash, blockNumber |-> i.blockNumber,
        confirmations |-> i.confirmations,
        confirmationsRequired |-> i.confirmationsRequired, confirmed |-> i.confirmed,
        verificationPassed |-> IF caught THEN "null" ELSE Tri(a.verificationPassed),
        verificationFunction |-> IF caught THEN "null" ELSE a.verificationFunction,
        verificationError |-> IF caught THEN result[p].error ELSE "null",
        payloadHashValid |-> IF caught THEN "null" ELSE Tri(a.payloadHashValid),
        timestampValid |-> IF caught THEN "null" ELSE Tri(a.timestampValid)]]
  /\ Did(p, <<"writeInspection">>)
  /\ Return(p, "inspected", 0)
  /\ UNCHANGED <<entry, env, loc, scn, world, fnVars>>
  /\ UNCHANGED ledgerVars

\* ----------------------------------------------------------- run_reward_flow

\* A gate without its third condition (payload hash and time window).
rewardGate_IgnoresHashAndTime(verificationPassed, confirmed, confirmations, payloadHashValid, timestampValid, confirmationsRequired) ==
  IF ~Truthy(verificationPassed) THEN "VerificationFailed"
  ELSE IF ~Truthy(confirmed) \/ confirmations < confirmationsRequired THEN "NotConfirmed"
  ELSE "pass"
\* runRewardFlow, lines 118-128: "pass", or the error the gate throws
rewardGate(verificationPassed, confirmed, confirmations, payloadHashValid, timestampValid, confirmationsRequired) ==
  IF ~Truthy(verificationPassed) THEN "VerificationFailed"
  ELSE IF ~Truthy(confirmed) \/ confirmations < confirmationsRequired THEN "NotConfirmed"
  ELSE IF ~Truthy(payloadHashValid) \/ ~Truthy(timestampValid) THEN "HashOrTimestampInvalid"
  ELSE "pass"
VerificationNotPassed == {"VerificationFailed", "NotConfirmed", "HashOrTimestampInvalid"}

\* runRewardFlow, lines 117-128: the gate on the attestation check
RfGate(p) ==
  /\ pc[p] = "rf_gate"
  /\ LET a == loc[p].attestation
         g == rewardGate(Tri(a.verificationPassed), Tri(a.confirmed), a.confirmations,
                         Tri(a.payloadHashValid), Tri(a.timestampValid),
                         confirmationsRequiredOf(env[p].CONFIRMATIONS)) IN
     IF g = "pass" THEN Goto(p, "rf_config") ELSE Throw(p, g)
  /\ UNCHANGED <<entry, env, loc, trace, reports, scn, world, fnVars>>
  /\ UNCHANGED ledgerVars

\* A dry run that has to be asked for.
dryRun_OptIn(DRY_RUN) == DRY_RUN = "1"
\* dryRun of runRewardFlow, line 114: DRY_RUN !== "0"
dryRun(DRY_RUN) == DRY_RUN # "0"
\* signerMode of runRewardFlow, line 115
signerMode(SIGNER_MODE) ==
  TrimLower(IF SIGNER_MODE \in {Unset, ""} THEN "private_key" ELSE SIGNER_MODE)

DryRunEnvs == IF Single THEN {Unset, "0", "1"} ELSE {"0"}
SignerModeEnvs == IF Single THEN {Unset, "MetaMask"} ELSE IF Repoll THEN {"MetaMask"} ELSE {Unset}
\* REWARD_FUNCTION_ARGS_JSON, by the attestationTxHash its array starts with
RewardArgsEnvs == IF Single THEN {Unset, "h1", "h2"} ELSE {"h1"}
SignerKeyEnvs == IF Single THEN {Unset, "a1", "a2"} ELSE {"a1", "a2"}
\* REWARD_TX_HASH: 0 when unset, the index of a sent transaction, or a hash
\* the ledger does not know
UnknownTx == MaxTxs + 1
RewardTxHashEnvs == (0..Len(txs)) \cup {UnknownTx}

\* runRewardFlow, lines 114-115 and 130-173: configuration, chain identity,
\* calldata, fee data and the best-effort gas estimate
RfConfig(p) ==
  /\ pc[p] = "rf_config"
  /\ \E args \in RewardArgsEnvs :
       IF args = Unset
       THEN /\ env' = [env EXCEPT ![p].REWARD_FUNCTION_ARGS_JSON = args]
            /\ Throw(p, "ConfigurationError")
            /\ UNCHANGED trace
       ELSE IF chainMismatch(chainId, env[p].FLARE_CHAIN_ID)
       THEN /\ env' = [env EXCEPT ![p].REWARD_FUNCTION_ARGS_JSON = args]
            /\ Throw(p, "ChainMismatch")
            /\ Did(p, <<"getNetwork">>)
       ELSE \E dr \in DryRunEnvs, sm \in SignerModeEnvs :
            /\ env' = [env EXCEPT ![p].REWARD_FUNCTION_ARGS_JSON = args,
                                  ![p].DRY_RUN = dr, ![p].SIGNER_MODE = sm]
            /\ Goto(p, "rf_dispatch")
            /\ Did(p, <<"getNetwork", "getFeeData", "estimateGas">>)
  /\ UNCHANGED <<entry, loc, reports, scn, world, fnVars>>
  /\ UNCHANGED ledgerVars

\* runRewardFlow, lines 175-216: the dry run prints the call and returns
RfDryRun(p) ==
  /\ pc[p] = "rf_dispatch"
  /\ dryRun(env[p].DRY_RUN)
  /\ Return(p, "dryRun", 0)
  /\ UNCHANGED <<entry, env, loc, trace, reports, scn, world, fnVars>>
  /\ UNCHANGED ledgerVars

\* runRewardFlow, lines 218-247: externally signed, nothing to poll yet
RfMetamask(p) ==
  /\ pc[p] = "rf_dispatch"
  /\ ~dryRun(env[p].DRY_RUN)
  /\ signerMode(env[p].SIGNER_MODE) = "metamask"
  /\ \E rth \in RewardTxHashEnvs :
       /\ env' = [env EXCEPT ![p].REWARD_TX_HASH = rth]
       /\ IF rth = 0 THEN Return(p, "awaitingSignature", 0) ELSE Goto(p, "rf_poll")
  /\ UNCHANGED <<entry, loc, trace, reports, scn, world, fnVars>>
  /\ UNCHANGED ledgerVars

\* runRewardFlow, lines 249-252: the receipt of the externally signed transaction
RfPollReceipt(p) ==
  /\ pc[p] = "rf_poll"
  /\ Did(p, <<"getTransactionReceipt">>)
  /\ LET i == env[p].REWARD_TX_HASH IN
     IF i = UnknownTx \/ txs[i].status = "pending"
     THEN Throw(p, "RewardTxNotFound") /\ UNCHANGED loc
     ELSE Goto(p, "rf_poll_block") /\ loc' = [loc EXCEPT ![p].rewardTx = i]
  /\ UNCHANGED <<entry, env, reports, scn, world, fnVars>>
  /\ UNCHANGED ledgerVars

\* runRewardFlow, lines 253-272: the confirmations of that transaction
RfPollBlock(p) ==
  /\ pc[p] = "rf_poll_block"
  /\ Did(p, <<"getBlockNumber">>)
  /\ LET confirmations == Confirmations(height, txs[loc[p].rewardTx].blockNumber) IN
     IF ~Confirmed(confirmations, confirmationsRequiredOf(env[p].CONFIRMATIONS))
     THEN Throw(p, "PendingConfirmation")
     ELSE Return(p, "rewardConfirmed", loc[p].rewardTx)
  /\ UNCHANGED <<entry, env, loc, reports, scn, world, fnVars>>
  /\ UNCHANGED ledgerVars

\* runRewardFlow, lines 274-278: the signer sends the reward call. The send
\* estimates gas first, which may already report a call that would revert.
RfSubmit(p) ==
  /\ pc[p] = "rf_dispatch"
  /\ ~dryRun(env[p].DRY_RUN)
  /\ signerMode(env[p].SIGNER_MODE) # "metamask"
  /\ \E key \in SignerKeyEnvs :
       /\ env' = [env EXCEPT ![p].FLARE_SIGNER_KEY = key]
       /\ IF key = Unset
          THEN Throw(p, "ConfigurationError") /\ UNCHANGED <<loc, trace, txs>>
          ELSE \/ /\ Len(txs) < MaxTxs
                  /\ txs' = Append(txs, NewTx("executeReward", key,
                                              env[p].REWARD_FUNCTION_ARGS_JSON, p))
                  /\ loc' = [loc EXCEPT ![p].rewardTx = Len(txs) + 1]
                  /\ Did(p, <<"sendTransaction">>)
                  /\ Goto(p, "rf_wait")
               \/ /\ executeRewardReverts(key, env[p].REWARD_FUNCTION_ARGS_JSON)
                  /\ Throw(p, "RejectedByLedger")
                  /\ Did(p, <<"estimateGas">>)
                  /\ UNCHANGED <<loc, txs>>
  /\ UNCHANGED <<entry, reports, scn, world, fnVars>>
  /\ UNCHANGED <<owner, executedAttestations, events, height, chainId>>

\* runRewardFlow, lines 279-290: one confirmation of the reward transaction
RfWait(p) ==
  /\ pc[p] = "rf_wait"
  /\ txs[loc[p].rewardTx].status # "pending"
  /\ Did(p, <<"waitReceipt">>)
  /\ IF txs[loc[p].rewardTx].status = "reverted"
     THEN Throw(p, "RejectedByLedger")
     ELSE Return(p, "rewardExecuted", loc[p].rewardTx)
  /\ UNCHANGED <<entry, env, loc, reports, scn, world, fnVars>>
  /\ UNCHANGED ledgerVars

\* A run waiting for its reward transaction is abandoned (the process is killed).
Abandon(p) ==
  /\ pc[p] = "rf_wait"
  /\ pc' = [pc EXCEPT ![p] = "cancelled"]
  /\ result' = [result EXCEPT ![p] = [outcome |-> "cancelled", error |-> "",
                                      kind |-> "", rewardTx |-> 0]]
  /\ UNCHANGED <<entry, env, loc, trace, reports, scn, world, fnVars>>
  /\ UNCHANGED ledgerVars

\* ------------------------------------------------------------ fetch_da_proof
\* DEFAULTS.maxAttempts
DEFAULT_MAX_ATTEMPTS == 40
\* Number(process.env.MAX_ATTEMPTS || DEFAULTS.maxAttempts); -1 stands for NaN,
\* which no attempt number is less than or equal to.
maxAttemptsOf(MAX_ATTEMPTS) ==
  CASE MAX_ATTEMPTS \in {Unset, ""} -> DEFAULT_MAX_ATTEMPTS
    [] MAX_ATTEMPTS = "0" -> 0
    [] MAX_ATTEMPTS = "1" -> 1
    [] MAX_ATTEMPTS = "2" -> 2
    [] MAX_ATTEMPTS = "3" -> 3
    [] OTHER -> -1

\* What the DA layer answers to a proof request: the HTTP status is ok or not,
\* and the body's proof field is an array or not, of some length. Undefined is
\* the variable last before any answer.
Undefined == [answered |-> FALSE, ok |-> FALSE, status |-> 0, proofIsArray |-> FALSE, proofLength |-> 0]
Responses ==
  {[answered |-> TRUE, ok |-> TRUE, status |-> 200, proofIsArray |-> TRUE, proofLength |-> 2],
   [answered |-> TRUE, ok |-> TRUE, status |-> 200, proofIsArray |-> TRUE, proofLength |-> 0],
   [answered |-> TRUE, ok |-> TRUE, status |-> 200, proofIsArray |-> FALSE, proofLength |-> 0],
   [answered |-> TRUE, ok |-> TRUE, status |-> 200, proofIsArray |-> FALSE, proofLength |-> 5],
   [answered |-> TRUE, ok |-> FALSE, status |-> 500, proofIsArray |-> TRUE, proofLength |-> 2],
   [answered |-> TRUE, ok |-> FALSE, status |-> 404, proofIsArray |-> FALSE, proofLength |-> 0]}
\* ... or the request fails (fetch rejects) and there is no answer.
Rejected == [answered |-> FALSE, ok |-> FALSE, status |-> -1, proofIsArray |-> FALSE, proofLength |-> 0]

\* hasNonEmptyProof(data)
hasNonEmptyProof(data) == data.proofIsArray /\ data.proofLength > 0

\* The answer of the latest-voting-round endpoint as fetchLatestVotingRound
\* takes it: a round number, null (status not ok), NaN (no voting_round_id in
\* the body), a body that is not JSON (res.json() throws), or no answer.
LatestRoundAnswers == {"round", "null", "NaN", "not_json", "rejected"}
LatestRound == 10

NoFetch ==
  [stage |-> "off", MAX_ATTEMPTS |-> Unset, VOTING_ROUND_ID |-> Unset, request |-> "",
   i |-> 0, k |-> 0, last |-> Undefined, written |-> <<>>, error |-> ""]
FetchGoto(stage) == fetch' = [fetch EXCEPT !.stage = stage]
FetchThrow(err) == fetch' = [fetch EXCEPT !.stage = "failed", !.error = err]
\* A usable answer r: the proof artifact is written and main returns.
FetchWrite(r, votingRoundId, endpoint) ==
  fetch' = [fetch EXCEPT !.stage = "written", !.last = r,
                         !.written = <<[votingRoundId |-> votingRoundId, endpoint |-> endpoint,
                                        response |-> r]>>]
\* The attempt ends without a proof: the log line, the sleep and i++.
FetchNextAttempt(r) ==
  fetch' = [fetch EXCEPT !.stage = "loop", !.last = r, !.i = @ + 1, !.k = 0]
OtherVars == <<fnName, fnIn, fnOut, scn, world>>

\* main, lines 89-107: the request submission file
FdpStart ==
  /\ fetch.stage = "start"
  /\ IF fetch.request = "missing" THEN FetchThrow("RequestSubmissionMissing")
     ELSE IF fetch.request = "no_bytes" THEN FetchThrow("AbiEncodedRequestMissing")
     ELSE fetch' = [fetch EXCEPT !.stage = "loop", !.i = 1]
  /\ UNCHANGED OtherVars
  /\ UNCHANGED ledgerVars
  /\ UNCHANGED procVars

\* main, lines 109-110 and 187-189: the loop test, and the error after the loop
FdpLoop ==
  /\ fetch.stage = "loop"
  /\ IF fetch.i <= maxAttemptsOf(fetch.MAX_ATTEMPTS)
     THEN FetchGoto(IF fetch.VOTING_ROUND_ID \notin {Unset, ""} THEN "round" ELSE "latest_round")
     ELSE FetchThrow("ProofNotAvailable")
  /\ UNCHANGED OtherVars
  /\ UNCHANGED ledgerVars
  /\ UNCHANGED procVars

\* main, lines 110-131: one request for the configured voting round
FdpFetchRound ==
  /\ fetch.stage = "round"
  /\ \E r \in Responses \cup {Rejected} :
       IF ~r.answered THEN FetchThrow("RequestFailed")
       ELSE IF r.ok /\ hasNonEmptyProof(r) THEN FetchWrite(r, fetch.VOTING_ROUND_ID, "round")
       ELSE FetchNextAttempt(r)
  /\ UNCHANGED OtherVars
  /\ UNCHANGED ledgerVars
  /\ UNCHANGED procVars

\* main, lines 133-134, and fetchLatestVotingRound
FdpLatestVotingRound ==
  /\ fetch.stage = "latest_round"
  /\ \E a \in LatestRoundAnswers :
       IF a = "rejected" THEN FetchThrow("RequestFailed")
       ELSE IF a = "not_json" THEN FetchThrow("BodyNotJson")
       ELSE IF a = "round" THEN fetch' = [fetch EXCEPT !.stage = "rounds", !.k = 1]
       ELSE FetchGoto("latest")
  /\ UNCHANGED OtherVars
  /\ UNCHANGED ledgerVars
  /\ UNCHANGED procVars

\* main, lines 135-158: the rounds latestRound - 2 .. latestRound + 1, in turn
FdpFetchNearRound ==
  /\ fetch.stage = "rounds"
  /\ \E r \in Responses \cup {Rejected} :
       IF ~r.answered THEN FetchThrow("RequestFailed")
       ELSE IF r.ok /\ hasNonEmptyProof(r)
       THEN FetchWrite(r, LatestRound - 3 + fetch.k, "round")
       ELSE IF fetch.k < 4 THEN fetch' = [fetch EXCEPT !.last = r, !.k = @ + 1]
       ELSE fetch' = [fetch EXCEPT !.last = r, !.stage = "latest"]
  /\ UNCHANGED OtherVars
  /\ UNCHANGED ledgerVars
  /\ UNCHANGED procVars

\* main, lines 161-185: the request by request bytes alone
FdpFetchLatest ==
  /\ fetch.stage = "latest"
  /\ \E r \in Responses \cup {Rejected} :
       IF ~r.answered THEN FetchThrow("RequestFailed")
       ELSE IF r.ok /\ hasNonEmptyProof(r) THEN FetchWrite(r, "null", "latest")
       ELSE FetchNextAttempt(r)
  /\ UNCHANGED OtherVars
  /\ UNCHANGED ledgerVars
  /\ UNCHANGED procVars

\* ------------------------------------------------- helpers applied on their own
\* The pure helpers of the scripts, each applied once to arguments drawn from
\* the sets below (scenario "helpers").
TriStates == {"true", "false", "null"}
ConfirmationArgs ==
  {a \in [blockNumber : 98..102, latestBlock : 100..MaxFnHeight,
          CONFIRMATIONS : {Unset, "2", "12"}] : a.latestBlock >= a.blockNumber}
PayloadHashArgs ==
  [apiDigest : {"none", "0xabc", "0xdef"},
   expectedMic : {Unset, "", "0xABC", "0xabc", "0xdef"},
   submissionMic : {"none", "", "0xabc", "0xDEF"}]
RewardGateArgs ==
  [verificationPassed : TriStates, confirmed : TriStates, payloadHashValid : TriStates,
   timestampValid : TriStates, confirmations : {1, 2, 12}, CONFIRMATIONS : {Unset, "2"}]

\* Request urls: a good one and ones whose range is empty, inverted, cut
\* short, unparsable or absent.
TimestampUrls ==
  {GoodUrl, InvertedUrl, NoMarkerUrl,
   [marker |-> TRUE, chunks |-> <<"2026-01-31T00:00Z", "2026-01-31T00:00Z">>],
   [marker |-> TRUE, chunks |-> <<"2026-01-31T00:00Z">>],
   [marker |-> TRUE, chunks |-> <<"2026-01-31T00:00Z", "fw24h">>],
   [marker |-> TRUE, chunks |-> <<"2026-01-31T00:00Z", "2026-02-07T00:00Z", "postcode">>]}
TimestampArgs ==
  [lowestUsedTimestamp : {0, 9, 10, 11}, blockTimestamp : {0, 10}, url : TimestampUrls]

\* Values of USE_SIMULATION and ATTESTATION_MODE: not set, empty, recognised
\* in several spellings, and unrecognised.
ModeArgs ==
  [USE_SIMULATION : {Unset, "", "1", " TRUE ", "Yes", "simulation", "0", "OFF", "Real", "maybe"},
   ATTESTATION_MODE : {Unset, "", "simulation", " simulation ", "SIMULATION", "real", "Real",
                       "sim", "1", " "}]

\* getAttestationMode, assertSimulationMode and assertRealMode on one environment
ApplyGetAttestationMode ==
  /\ fnName = "getAttestationMode"
  /\ fnOut = <<>>
  /\ fnOut' = <<[mode |-> getAttestationMode(fnIn.USE_SIMULATION, fnIn.ATTESTATION_MODE),
                 simulationPasses |-> assertSimulationMode(fnIn.USE_SIMULATION, fnIn.ATTESTATION_MODE),
                 realPasses |-> assertRealMode(fnIn.USE_SIMULATION, fnIn.ATTESTATION_MODE)]>>
  /\ UNCHANGED <<fnName, fnIn, scn, world, fetch>>
  /\ UNCHANGED ledgerVars
  /\ UNCHANGED procVars

\* checkAttestation, lines 395-400
ApplyTimestampValid ==
  /\ fnName = "timestampValid"
  /\ fnOut = <<>>
  /\ fnOut' = <<timestampValidOf(fnIn.lowestUsedTimestamp, fnIn.blockTimestamp,
                                 parseRequestRange(fnIn.url))>>
  /\ UNCHANGED <<fnName, fnIn, scn, world, fetch>>
  /\ UNCHANGED ledgerVars
  /\ UNCHANGED procVars

\* One transaction looked at at two chain heights, the second one later.
LaterConfirmationArgs ==
  {a \in [blockNumber : 98..102, H1 : 100..MaxFnHeight, H2 : 100..MaxFnHeight,
          CONFIRMATIONS : {Unset, "2", "12"}] : a.blockNumber <= a.H1 /\ a.H1 < a.H2}

\* checkAttestation, lines 278-280 and 332-334, at height H1 and again at H2
ApplyConfirmationsLater ==
  /\ fnName = "confirmationsLater"
  /\ fnOut = <<>>
  /\ LET confirmationsRequired == confirmationsRequiredOf(fnIn.CONFIRMATIONS)
         at1 == Confirmations(fnIn.H1, fnIn.blockNumber)
         at2 == Confirmations(fnIn.H2, fnIn.blockNumber) IN
     fnOut' = <<[confirmations1 |-> at1, confirmed1 |-> Confirmed(at1, confirmationsRequired),
                 confirmations2 |-> at2, confirmed2 |-> Confirmed(at2, confirmationsRequired)]>>
  /\ UNCHANGED <<fnName, fnIn, scn, world, fetch>>
  /\ UNCHANGED ledgerVars
  /\ UNCHANGED procVars

\* checkAttestation, lines 278-280 and 332-334
ApplyConfirmations ==
  /\ fnName = "confirmations"
  /\ fnOut = <<>>
  /\ LET confirmationsRequired == confirmationsRequiredOf(fnIn.CONFIRMATIONS)
         confirmations == Confirmations(fnIn.latestBlock, fnIn.blockNumber) IN
     fnOut' = <<[confirmationsRequired |-> confirmationsRequired,
                 confirmations |-> confirmations,
                 confirmed |-> Confirmed(confirmations, confirmationsRequired)]>>
  /\ UNCHANGED <<fnName, fnIn, scn, world, fetch>>
  /\ UNCHANGED ledgerVars
  /\ UNCHANGED procVars

ApplyValidatePayloadHash ==
  /\ fnName = "validatePayloadHash"
  /\ fnOut = <<>>
  /\ fnOut' = <<validatePayloadHash(fnIn.apiDigest, fnIn.expectedMic, fnIn.submissionMic)>>
  /\ UNCHANGED <<fnName, fnIn, scn, world, fetch>>
  /\ UNCHANGED ledgerVars
  /\ UNCHANGED procVars

\* runRewardFlow, lines 111-113 and 118-128, on a result of checkAttestation
ApplyRewardGate ==
  /\ fnName = "rewardGate"
  /\ fnOut = <<>>
  /\ fnOut' = <<rewardGate(fnIn.verificationPassed, fnIn.confirmed, fnIn.confirmations,
                           fnIn.payloadHashValid, fnIn.timestampValid,
                           confirmationsRequiredOf(fnIn.CONFIRMATIONS))>>
  /\ UNCHANGED <<fnName, fnIn, scn, world, fetch>>
  /\ UNCHANGED ledgerVars
  /\ UNCHANGED procVars

\* ------------------------------------------------------------ specification
StartLabel(e) ==
  CASE e = "reward" -> "rf_assert"
    [] e = "check" -> "ca_assert"
    [] e = "inspect" -> "ins_assert"
    [] e = "none" -> "off"

InitLedger ==
  /\ Constructor("a1")
  /\ height = 105
  /\ txs = <<>>
  /\ reports = [path \in {DefaultOutPath, InspectOutPath} |->
                  IF path = DefaultOutPath THEN NoAttestation ELSE NoInspection]

InitRuns ==
  /\ scn \in {"contract", "single", "pair"}
  /\ chainId \in (IF Single THEN {114, 16} ELSE {114})
  /\ InitLedger
  /\ entry \in [Procs -> {"reward", "check", "inspect", "none"}]
  /\ scn = "contract" => entry = [p \in Procs |-> "none"]
  /\ scn = "single" => entry["p1"] # "none" /\ entry["p2"] = "none"
  /\ scn = "pair" => entry = [p \in Procs |-> "reward"]
  /\ pc = [p \in Procs |-> StartLabel(entry[p])]
  /\ env = [p \in Procs |-> InitEnv]
  /\ loc = [p \in Procs |-> InitLoc]
  /\ trace = [p \in Procs |-> <<>>]
  /\ result = [p \in Procs |-> NoResult]
  /\ fnName = "none"
  /\ fnIn = <<>>
  /\ fnOut = <<>>
  /\ world = NoWorld
  /\ fetch = NoFetch

\* What two runs of a verification command share when nothing changes between
\* them: the environment, the artifacts on disk, and the ledger (its height
\* and what the verification contract answers).
Worlds ==
  [mode : {<<Unset, Unset>>},
   FLARE_CHAIN_ID : {"114"},
   FDC_ATTESTATION_CONTRACT : {Unset, FdcHub},
   ATTESTATION_TX_HASH : {Unset, "h1", "h2"},
   submission : {NoSubmission, [exists |-> TRUE, txHash |-> "h1", computedMic |-> "0xdef"]},
   CONFIRMATIONS : {Unset, "2"},
   proof : {NoProof,
            [exists |-> TRUE, requestOf |-> "h1", lowestUsedTimestamp |-> 0, url |-> GoodUrl],
            [exists |-> TRUE, requestOf |-> "h1", lowestUsedTimestamp |-> 20, url |-> GoodUrl]},
   primary : {"true", "false", "rpc_error"},
   secondary : {"true", "rpc_error"},
   apiDigest : {"none", "0xabc"},
   EXPECTED_MIC : {Unset, "0xABC"}]

\* The same verification command run twice: the second run is queued until
\* the first has ended.
InitTwice ==
  /\ scn = "twice"
  /\ chainId = 114
  /\ InitLedger
  /\ \E e \in {"check", "inspect"} :
       /\ entry = [p \in Procs |-> e]
       /\ pc = [p \in Procs |-> IF p = "p1" THEN StartLabel(e) ELSE "queued"]
  /\ env = [p \in Procs |-> InitEnv]
  /\ loc = [p \in Procs |-> InitLoc]
  /\ trace = [p \in Procs |-> <<>>]
  /\ result = [p \in Procs |-> NoResult]
  /\ fnName = "none"
  /\ fnIn = <<>>
  /\ fnOut = <<>>
  /\ world \in Worlds
  /\ fetch = NoFetch

\* A healthy attestation h1 and a configuration that asks for two confirmations.
RepollWorld ==
  [mode |-> <<Unset, Unset>>, FLARE_CHAIN_ID |-> "114", FDC_ATTESTATION_CONTRACT |-> FdcHub,
   ATTESTATION_TX_HASH |-> "h1", submission |-> NoSubmission, CONFIRMATIONS |-> "2",
   proof |-> [exists |-> TRUE, requestOf |-> "h1", lowestUsedTimestamp |-> 0, url |-> GoodUrl],
   primary |-> "true", secondary |-> "true", apiDigest |-> "0xabc", EXPECTED_MIC |-> Unset]

\* run_reward_flow.js --execute with SIGNER_MODE=metamask, invoked and then
\* invoked again
InitRepoll ==
  /\ scn = "repoll"
  /\ chainId = 114
  /\ InitLedger
  /\ entry = [p \in Procs |-> "reward"]
  /\ pc = [p \in Procs |-> IF p = "p1" THEN StartLabel("reward") ELSE "queued"]
  /\ env = [p \in Procs |-> InitEnv]
  /\ loc = [p \in Procs |-> InitLoc]
  /\ trace = [p \in Procs |-> <<>>]
  /\ result = [p \in Procs |-> NoResult]
  /\ fnName = "none"
  /\ fnIn = <<>>
  /\ fnOut = <<>>
  /\ world = RepollWorld
  /\ fetch = NoFetch

\* fetch_da_proof.js with its environment and its request submission file
MaxAttemptsEnvs == {Unset, "0", "1", "2", "3", "many"}
InitFetch ==
  /\ scn = "fetch"
  /\ chainId = 114
  /\ InitLedger
  /\ entry = [p \in Procs |-> "none"]
  /\ pc = [p \in Procs |-> "off"]
  /\ env = [p \in Procs |-> InitEnv]
  /\ loc = [p \in Procs |-> InitLoc]
  /\ trace = [p \in Procs |-> <<>>]
  /\ result = [p \in Procs |-> NoResult]
  /\ fnName = "none"
  /\ fnIn = <<>>
  /\ fnOut = <<>>
  /\ world = NoWorld
  /\ \E m \in MaxAttemptsEnvs, v \in {Unset, "7"}, rq \in {"missing", "no_bytes", "ok"} :
       fetch = [NoFetch EXCEPT !.stage = "start", !.MAX_ATTEMPTS = m,
                               !.VOTING_ROUND_ID = v, !.request = rq]

\* The command is run again, in a new process.
StartSecond ==
  /\ pc["p2"] = "queued"
  /\ pc["p1"] \in {"done", "failed"}
  /\ pc' = [pc EXCEPT !["p2"] = StartLabel(entry["p2"])]
  /\ UNCHANGED <<entry, env, loc, trace, result, reports, scn, world, fnVars>>
  /\ UNCHANGED ledgerVars

InitHelpers ==
  /\ scn = "helpers"
  /\ chainId = 114
  /\ InitLedger
  /\ entry = [p \in Procs |-> "none"]
  /\ pc = [p \in Procs |-> "off"]
  /\ env = [p \in Procs |-> InitEnv]
  /\ loc = [p \in Procs |-> InitLoc]
  /\ trace = [p \in Procs |-> <<>>]
  /\ result = [p \in Procs |-> NoResult]
  /\ \/ fnName = "confirmations" /\ fnIn \in ConfirmationArgs
     \/ fnName = "validatePayloadHash" /\ fnIn \in PayloadHashArgs
     \/ fnName = "rewardGate" /\ fnIn \in RewardGateArgs
     \/ fnName = "confirmationsLater" /\ fnIn \in LaterConfirmationArgs
     \/ fnName = "timestampValid" /\ fnIn \in TimestampArgs
     \/ fnName = "getAttestationMode" /\ fnIn \in ModeArgs
  /\ fnOut = <<>>
  /\ world = NoWorld
  /\ fetch = NoFetch

Init == InitRuns \/ InitTwice \/ InitRepoll \/ InitHelpers \/ InitFetch

\* Wallets outside the scripts: any call in the contract scenario, one reward
\* call next to the runs otherwise.
WalletMaySend ==
  \/ scn = "contract"
  \/ scn \in {"single", "pair", "repoll"} /\ \A i \in 1..Len(txs) : txs[i].by # "wallet"

WalletHashes == IF scn = "contract" THEN Hashes ELSE {"h1"}

Next ==
  \/ \E a \in Addrs, h \in WalletHashes : WalletMaySend /\ WalletSendsExecuteReward(a, h)
  \/ \E a \in Addrs, n \in Addrs \cup {ZeroAddress} :
       scn = "contract" /\ WalletSendsSetOwner(a, n)
  \/ \E i \in 1..MaxTxs : Mine(i)
  \/ AdvanceHeight
  \/ StartSecond
  \/ FdpStart
  \/ FdpLoop
  \/ FdpFetchRound
  \/ FdpLatestVotingRound
  \/ FdpFetchNearRound
  \/ FdpFetchLatest
  \/ ApplyConfirmations
  \/ ApplyConfirmationsLater
  \/ ApplyTimestampValid
  \/ ApplyGetAttestationMode
  \/ ApplyValidatePayloadHash
  \/ ApplyRewardGate
  \/ \E p \in Procs : RfAssert(p)
  \/ \E p \in Procs : CaAssert(p)
  \/ \E p \in Procs : CaConfig(p)
  \/ \E p \in Procs : CaNetwork(p)
  \/ \E p \in Procs : CaTx(p)
  \/ \E p \in Procs : CaBlock(p)
  \/ \E p \in Procs : CaProof(p)
  \/ \E p \in Procs : CaVerifyPrimary(p)
  \/ \E p \in Procs : CaVerifyFallback(p)
  \/ \E p \in Procs : CaReport(p)
  \/ \E p \in Procs : InsAssert(p)
  \/ \E p \in Procs : InsConfig(p)
  \/ \E p \in Procs : InsNetwork(p)
  \/ \E p \in Procs : InsTx(p)
  \/ \E p \in Procs : InsReport(p)
  \/ \E p \in Procs : RfGate(p)
  \/ \E p \in Procs : RfConfig(p)
  \/ \E p \in Procs : RfDryRun(p)
  \/ \E p \in Procs : RfMetamask(p)
  \/ \E p \in Procs : RfPollReceipt(p)
  \/ \E p \in Procs : RfPollBlock(p)
  \/ \E p \in Procs : RfSubmit(p)
  \/ \E p \in Procs : RfWait(p)
  \/ \E p \in Procs : Abandon(p)

Spec == Init /\ [][Next]_vars

\* ------------------------------------------------------------------ claims
\* Transactions the run p sent, and the calls its log holds.
TxsBy(p) == {i \in 1..Len(txs) : txs[i].by = p}
Ops(p) == {trace[p][k] : k \in 1..Len(trace[p])}
RewardsFor(h) ==
  {i \in 1..Len(txs) : txs[i].fn = "executeReward" /\ txs[i].arg = h
                        /\ txs[i].status = "success"}
RecordsFor(h) == {k \in 1..Len(events) : events[k].attestationTxHash = h}

\* C1: for every attestation tx hash h, whatever executeReward calls are made
\* (one after the other, from several callers, or again after an abandoned
\* wait), at most one call for h succeeds, at most one RewardExecuted record
\* for h exists, and the record exists exactly when a call succeeded.
C1_AtMostOneRewardPerHash ==
  \A h \in Hashes :
    /\ Cardinality(RewardsFor(h)) <= 1
    /\ Cardinality(RecordsFor(h)) <= 1
    /\ executedAttestations[h] <=> RewardsFor(h) # {}
    /\ Cardinality(RecordsFor(h)) = Cardinality(RewardsFor(h))

\* A run was abandoned while waiting, its call succeeded, and a second call by
\* the owner for the same hash was rejected.
C1_Witness ==
  \E p \in Procs : \E i \in TxsBy(p) : \E j \in 1..Len(txs) :
    /\ pc[p] = "cancelled"
    /\ txs[i].status = "success"
    /\ j # i
    /\ txs[j].fn = "executeReward"
    /\ txs[j].arg = txs[i].arg
    /\ txs[j].from = owner
    /\ txs[j].status = "reverted"

AllVerdictsTrue(a, confirmationsRequired) ==
  /\ a.verificationPassed
  /\ a.confirmed
  /\ a.confirmations >= confirmationsRequired
  /\ a.payloadHashValid
  /\ a.timestampValid
PastGate == {"rf_config", "rf_dispatch", "rf_poll", "rf_poll_block", "rf_wait",
             "done", "cancelled"}

\* C2: a run of runRewardFlow is past its gate (at its submission step or at
\* any outcome that is not a verification error) only if the attestation check
\* returned verificationPassed, confirmed with enough confirmations,
\* payloadHashValid and timestampValid all true; with any other verdicts it
\* stops at the gate with a verification-not-passed error and has sent nothing.
\* On every combination of the four verdicts over true, false and null the gate
\* passes exactly when all four are true and the confirmations suffice.
C2_NoRewardWithoutVerification ==
  /\ \A p \in Procs :
       entry[p] = "reward" =>
         LET a == loc[p].attestation
             req == confirmationsRequiredOf(env[p].CONFIRMATIONS) IN
         /\ pc[p] \in PastGate => a # NoAttestation /\ AllVerdictsTrue(a, req)
         /\ TxsBy(p) # {} => a # NoAttestation /\ AllVerdictsTrue(a, req)
         /\ (a # NoAttestation /\ ~AllVerdictsTrue(a, req)) =>
              /\ pc[p] \in {"rf_gate", "failed"}
              /\ pc[p] = "failed" => result[p].error \in VerificationNotPassed
              /\ TxsBy(p) = {}
              /\ Ops(p) \cap {"sendTransaction", "estimateGas", "getFeeData"} = {}
  /\ (fnName = "rewardGate" /\ fnOut # <<>>) =>
       /\ fnOut[1] = "pass" <=>
            /\ fnIn.verificationPassed = "true"
            /\ fnIn.confirmed = "true"
            /\ fnIn.payloadHashValid = "true"
            /\ fnIn.timestampValid = "true"
            /\ fnIn.confirmations >= confirmationsRequiredOf(fnIn.CONFIRMATIONS)
       /\ fnOut[1] # "pass" => fnOut[1] \in VerificationNotPassed

\* A run whose proof verified and whose transaction is confirmed is stopped at
\* the gate by the payload hash or the time window.
C2_Witness ==
  \E p \in Procs :
    /\ pc[p] = "failed"
    /\ result[p].error = "HashOrTimestampInvalid"
    /\ loc[p].attestation.verificationPassed
    /\ loc[p].attestation.confirmed
    /\ TxsBy(p) = {}

\* Two runs of the reward gate in execute mode, signing as the owner, for the
\* same attestation tx hash.
ExecutePair(p, q, h) ==
  /\ p # q
  /\ \A r \in {p, q} :
       /\ entry[r] = "reward"
       /\ env[r].ATTESTATION_TX_HASH = h
       /\ env[r].REWARD_FUNCTION_ARGS_JSON = h
       /\ env[r].DRY_RUN = "0"
       /\ signerMode(env[r].SIGNER_MODE) = "private_key"
       /\ env[r].FLARE_SIGNER_KEY = owner
       /\ pc[r] \in {"done", "failed"}

\* C3: when runRewardFlow has run twice in execute mode for the same
\* attestation tx hash, exactly one reward record exists for it and one of the
\* two runs reported AlreadyExecuted.
C3_SecondRunReportsAlreadyExecuted ==
  \A p, q \in Procs : \A h \in Hashes :
    ExecutePair(p, q, h) =>
      /\ Cardinality(RecordsFor(h)) = 1
      /\ \E r \in {p, q} :
           result[r].outcome = "returned" /\ result[r].kind = "alreadyExecuted"

\* C4: a run of the reward gate sends its reward transaction only after it
\* read the ledger's reward record for that attestation tx hash, and sends
\* nothing when the record exists.
C4_QueriesRecordBeforeSubmitting ==
  [][\A p \in Procs :
       (Len(txs') > Len(txs) /\ txs'[Len(txs')].by = p) =>
         /\ "readRewardRecord" \in Ops(p)
         /\ ~executedAttestations[txs'[Len(txs')].arg]]_vars

\* C5: dry-run is the default: a run of runRewardFlow whose DRY_RUN is anything
\* but "0" (unset included) sends no transaction, so it leaves the ledger's
\* reward records as they were, and it ends by returning the dry-run summary.
C5_DryRunNeverSubmits ==
  \A p \in Procs :
    (entry[p] = "reward" /\ env[p].DRY_RUN \notin {NotRead, "0"}) =>
      /\ TxsBy(p) = {}
      /\ "sendTransaction" \notin Ops(p)
      /\ pc[p] \in {"rf_dispatch", "done"}
      /\ pc[p] = "done" => result[p].kind = "dryRun" /\ result[p].rewardTx = 0

\* A run with DRY_RUN unset passed the gate and returned the dry-run summary.
C5_Witness ==
  \E p \in Procs :
    /\ env[p].DRY_RUN = Unset
    /\ pc[p] = "done"
    /\ result[p].kind = "dryRun"
    /\ env[p].FLARE_SIGNER_KEY = NotRead

\* C6: a run whose mode resolves to simulation (not real) has thrown at its
\* first step: it made no ledger call, read no file, sent nothing, and never
\* reached the checks or the reward gate.
C6_SimulationNeverReachesGate ==
  \A p \in Procs :
    (env[p].USE_SIMULATION # NotRead
     /\ getAttestationMode(env[p].USE_SIMULATION, env[p].ATTESTATION_MODE) # "real") =>
      /\ pc[p] = "failed"
      /\ result[p].error = "ModeError"
      /\ trace[p] = <<>>
      /\ loc[p] = InitLoc
      /\ TxsBy(p) = {}

\* A run of the reward flow in simulation mode was refused.
C6_Witness ==
  \E p \in Procs :
    /\ entry[p] = "reward"
    /\ env[p].ATTESTATION_MODE = " simulation "
    /\ pc[p] = "failed"
    /\ result[p].error = "ModeError"

LedgerCalls ==
  {"getNetwork", "getTransaction", "getTransactionReceipt", "getBlockNumber", "getLogs",
   "requestFee", "verifyJsonApi", "verifyWeb2Json", "getBlock", "getFeeData",
   "estimateGas", "sendTransaction", "waitReceipt"}
PolicyWork == {"readProof", "readApiResponse", "writeReport", "writeInspection"}
FirstLedgerCall(p) ==
  LET ks == {k \in 1..Len(trace[p]) : trace[p][k] \in LedgerCalls} IN
  IF ks = {} THEN "none" ELSE trace[p][CHOOSE k \in ks : \A j \in ks : k <= j]
ChainDiffers(p) ==
  /\ env[p].FLARE_CHAIN_ID \notin {NotRead, Unset}
  /\ chainId # ToNumber(env[p].FLARE_CHAIN_ID)

\* C7: the first ledger call of a verification run asks for the chain id, and
\* when the ledger's chain id differs from the configured one the run makes no
\* other ledger call, aborts with the chain-mismatch error, evaluates no policy
\* and produces no verdict or report.
C7_ChainIdentityFirst ==
  \A p \in Procs :
    /\ FirstLedgerCall(p) \in {"none", "getNetwork"}
    /\ ChainDiffers(p) =>
         /\ Ops(p) \cap LedgerCalls \subseteq {"getNetwork"}
         /\ "getNetwork" \in Ops(p) => pc[p] = "failed" /\ result[p].error = "ChainMismatch"
         /\ pc[p] \in {"ca_network", "ins_network", "failed"}
         /\ Ops(p) \cap PolicyWork = {}
         /\ loc[p].attestation = NoAttestation
         /\ loc[p].confirmations = 0
         /\ loc[p].inspection.confirmations = 0
         /\ reports[DefaultOutPath] = NoAttestation
         /\ reports[InspectOutPath] = NoInspection

\* Configured for chain 114, the ledger reported 16 and the run aborted.
C7_Witness ==
  \E p \in Procs :
    /\ chainId = 16
    /\ env[p].FLARE_CHAIN_ID = "114"
    /\ "getNetwork" \in Ops(p)
    /\ pc[p] = "failed"
    /\ result[p].error = "ChainMismatch"

\* C8: confirmations = current height - block height + 1, the required number
\* is 12 when CONFIRMATIONS is not configured, and the check passes iff
\* confirmations >= required; block 100 at height 105 with 12 required gives 6
\* confirmations and a failed check.
C8_ConfirmationDepth ==
  (fnName = "confirmations" /\ fnOut # <<>>) =>
    LET o == fnOut[1] IN
    /\ o.confirmations = fnIn.latestBlock - fnIn.blockNumber + 1
    /\ fnIn.CONFIRMATIONS = Unset => o.confirmationsRequired = 12
    /\ fnIn.CONFIRMATIONS = "2" => o.confirmationsRequired = 2
    /\ o.confirmed <=> o.confirmations >= o.confirmationsRequired
    /\ (fnIn.blockNumber = 100 /\ fnIn.latestBlock = 105
        /\ fnIn.CONFIRMATIONS \in {Unset, "12"}) =>
         o.confirmations = 6 /\ ~o.confirmed

\* Block 100 at height 105 with the default requirement: 6 confirmations, failed.
C8_Witness ==
  /\ fnName = "confirmations"
  /\ fnOut # <<>>
  /\ fnIn.blockNumber = 100
  /\ fnIn.latestBlock = 105
  /\ fnIn.CONFIRMATIONS = Unset
  /\ fnOut[1].confirmations = 6
  /\ ~fnOut[1].confirmed

\* A comparison is present when the data artifact exists and the digest to
\* compare with is given; it disagrees when the digests differ (ignoring case).
ComparisonPresent(apiDigest, mic) == apiDigest # "none" /\ mic \notin {Unset, "none", ""}
ComparisonDisagrees(apiDigest, mic) ==
  ComparisonPresent(apiDigest, mic) /\ LowerHex(apiDigest) # LowerHex(mic)

\* C9: validatePayloadHash returns payloadHashValid = true iff neither the
\* comparison with the expected digest nor the comparison with the digest
\* recorded at submission, when present, disagrees with the recomputed digest;
\* with no comparison present the result is true.
C9_PayloadHashValid ==
  (fnName = "validatePayloadHash" /\ fnOut # <<>>) =>
    LET o == fnOut[1]
        expectedDisagrees == ComparisonDisagrees(fnIn.apiDigest, fnIn.expectedMic)
        submissionDisagrees == ComparisonDisagrees(fnIn.apiDigest, fnIn.submissionMic) IN
    /\ o.payloadHashValid <=> ~(expectedDisagrees \/ submissionDisagrees)
    /\ (~ComparisonPresent(fnIn.apiDigest, fnIn.expectedMic)
        /\ ~ComparisonPresent(fnIn.apiDigest, fnIn.submissionMic)) => o.payloadHashValid
    /\ o.micMatchesExpected = "false" <=> expectedDisagrees
    /\ o.micMatchesSubmission = "false" <=> submissionDisagrees

\* The expected digest agrees, the digest recorded at submission does not.
C9_Witness ==
  /\ fnName = "validatePayloadHash"
  /\ fnOut # <<>>
  /\ fnOut[1].micMatchesExpected = "true"
  /\ fnOut[1].micMatchesSubmission = "false"
  /\ ~fnOut[1].payloadHashValid

\* The error a run ended with, as its log would record the throw.
EndedWith(p) ==
  IF pc[p] = "done" /\ entry[p] = "inspect"
  THEN "threw " \o reports[InspectOutPath].verificationError
  ELSE "threw " \o result[p].error
PrimaryFirst(p) ==
  \A k \in 1..Len(trace[p]) :
    /\ trace[p][k] = "verifyWeb2Json" => k >= 3 /\ trace[p][k - 2] = "verifyJsonApi"
    /\ (trace[p][k] = "verifyJsonApi" /\ k < Len(trace[p])
        /\ trace[p][k + 1] \in {"returned true", "returned false"}) =>
         "verifyWeb2Json" \notin Ops(p)

\* C10 as claimed: the primary signature is called first; the secondary is
\* called only after the primary failed to decode; a false from the primary is
\* returned without the secondary; any other failure of the primary ends the
\* run with that failure and without the secondary.
C10_FallbackOnlyOnDecodeMismatch ==
  \A p \in Procs :
    /\ PrimaryFirst(p)
    /\ \A k \in 1..Len(trace[p]) :
         /\ trace[p][k] = "verifyWeb2Json" => trace[p][k - 1] = "threw decode_error"
         /\ (trace[p][k] = "verifyJsonApi" /\ k < Len(trace[p])
             /\ trace[p][k + 1] = "threw rpc_error") =>
              "verifyWeb2Json" \notin Ops(p)

\* C10 amended: the primary signature is called first; the secondary is called
\* exactly when the primary call throws, whatever the failure; a false from the
\* primary is returned without the secondary; when the secondary throws too,
\* the run ends with the primary's error.
C10_FallbackOnAnyThrow ==
  \A p \in Procs :
    /\ PrimaryFirst(p)
    /\ \A k \in 1..Len(trace[p]) :
         /\ trace[p][k] = "verifyWeb2Json" => trace[p][k - 1] \in Threw
         /\ (trace[p][k] = "verifyJsonApi" /\ k < Len(trace[p])
             /\ trace[p][k + 1] \in Threw) =>
              \/ pc[p] = "ca_fallback" /\ Len(trace[p]) = k + 1
              \/ Len(trace[p]) >= k + 2 /\ trace[p][k + 2] = "verifyWeb2Json"
         /\ (trace[p][k] = "verifyWeb2Json" /\ trace[p][k + 1] \in Threw) =>
              /\ pc[p] \in {"failed", "ins_report", "done"}
              /\ EndedWith(p) = trace[p][k - 1]

\* The primary call failed for a reason other than decoding, the secondary was
\* called and returned true, and the check completed.
C10_Witness ==
  \E p \in Procs : \E k \in 1..Len(trace[p]) :
    /\ trace[p][k] = "threw rpc_error"
    /\ k + 2 <= Len(trace[p])
    /\ trace[p][k + 1] = "verifyWeb2Json"
    /\ trace[p][k + 2] = "returned true"
    /\ loc[p].attestation.verificationFunction = "verifyWeb2Json"

\* A run of the reward gate in execute mode that returned (exit 0).
ExecuteSucceeded(p) ==
  /\ entry[p] = "reward"
  /\ env[p].DRY_RUN = "0"
  /\ pc[p] = "done"

\* C11: a run of the reward gate in execute mode returns with a reward
\* transaction only when that transaction has the required number of confirmations
\* (CONFIRMATIONS, 12 by default), whether the run signed the transaction
\* itself or the transaction was signed externally.
C11_SuccessOnlyAfterRequiredDepth ==
  \A p \in Procs :
    (ExecuteSucceeded(p) /\ result[p].rewardTx \in 1..Len(txs)) =>
      /\ txs[result[p].rewardTx].status # "pending"
      /\ Confirmations(height, txs[result[p].rewardTx].blockNumber)
           >= confirmationsRequiredOf(env[p].CONFIRMATIONS)

\* C12: a run of the reward gate in execute mode returns (exit 0) only if the
\* attestation check passed and the ledger accepted the reward call, that is a
\* reward transaction of the run has a successful receipt.
C12_ExitZeroOnlyIfAccepted ==
  \A p \in Procs :
    ExecuteSucceeded(p) =>
      /\ AllVerdictsTrue(loc[p].attestation, confirmationsRequiredOf(env[p].CONFIRMATIONS))
      /\ result[p].rewardTx \in 1..Len(txs)
      /\ txs[result[p].rewardTx].fn = "executeReward"
      /\ txs[result[p].rewardTx].status = "success"

Terminated(p) == pc[p] \in {"done", "failed"}
\* Two ended runs agree in everything they computed, returned or threw.
SameOutcome(p, q) ==
  /\ result[p] = result[q]
  /\ loc[p] = loc[q]
  /\ trace[p] = trace[q]
  /\ env[p] = env[q]

\* C13: when a verification command is run twice on the same configuration,
\* artifacts and ledger state, the second run ends as the first did (same
\* verdicts or same error, same calls made), and every report it writes is
\* identical to the one the first run wrote: nothing the first run left behind
\* changes the second.
C13_VerificationIdempotent ==
  [][Twice =>
       /\ \A path \in DOMAIN reports :
            reports'[path] # reports[path] => reports[path] \in {NoAttestation, NoInspection}
       /\ (Terminated("p1") /\ Terminated("p2"))' => SameOutcome("p1", "p2")']_vars

\* Both runs completed a verification of h1 through the secondary signature
\* and the report on disk is the one either of them computed.
C13_Witness ==
  /\ Twice
  /\ pc["p1"] = "done"
  /\ pc["p2"] = "done"
  /\ loc["p2"].attestation.txHash = "h1"
  /\ loc["p2"].attestation.verificationFunction = "verifyWeb2Json"
  /\ reports[DefaultOutPath] = loc["p1"].attestation
  /\ reports[DefaultOutPath] = loc["p2"].attestation

\* C14: for one transaction, the confirmations computed at a later chain
\* height are at least those computed earlier, so a confirmation-depth check
\* that passed does not fail later. This holds for a transaction looked at at
\* any two heights, and within a run of the inspection, which computes the
\* confirmations of its transaction twice (itself, then in checkAttestation).
C14_ConfirmationsMonotonic ==
  /\ (fnName = "confirmationsLater" /\ fnOut # <<>>) =>
       /\ fnOut[1].confirmations2 >= fnOut[1].confirmations1
       /\ fnOut[1].confirmations2 - fnOut[1].confirmations1 = fnIn.H2 - fnIn.H1
       /\ fnOut[1].confirmed1 => fnOut[1].confirmed2
  /\ \A p \in Procs :
       (entry[p] = "inspect" /\ loc[p].latestBlock # 0) =>
         /\ loc[p].confirmations >= loc[p].inspection.confirmations
         /\ loc[p].inspection.confirmed => loc[p].confirmed
  /\ \A p \in Procs :
       (entry[p] = "inspect" /\ loc[p].attestation # NoAttestation) =>
         /\ loc[p].attestation.confirmations >= loc[p].inspection.confirmations
         /\ loc[p].inspection.confirmed => loc[p].attestation.confirmed

\* An inspection saw its transaction one confirmation short, and the check it
\* then ran, a block later, saw it confirmed.
C14_Witness ==
  \E p \in Procs :
    /\ entry[p] = "inspect"
    /\ loc[p].attestation # NoAttestation
    /\ ~loc[p].inspection.confirmed
    /\ loc[p].attestation.confirmed
    /\ loc[p].attestation.confirmations = loc[p].inspection.confirmations + 1

\* C15: the report of a verification is kept under the attestation
\* transaction it is about: a run overwrites a report only when that report
\* is about the same attestation transaction, so runs for distinct
\* attestations leave each other's reports alone.
C15_ReportKeyedByAttestation ==
  [][reports'[DefaultOutPath] # reports[DefaultOutPath] =>
       \/ reports[DefaultOutPath] = NoAttestation
       \/ reports[DefaultOutPath].txHash = reports'[DefaultOutPath].txHash]_vars

Artifacts == {"writeReport", "writeInspection", "writeOutcome"}
\* The run read its configuration, found the configured chain and went on.
PastConfiguration(p) == "getTransaction" \in Ops(p)

\* C16: every verification run and every run of the reward gate that got past
\* its configuration has written its verdict or outcome artifact when it ends,
\* also when it ends in failure.
C16_ArtifactAlwaysWritten ==
  \A p \in Procs :
    (Terminated(p) /\ PastConfiguration(p)) => Ops(p) \cap Artifacts # {}

\* Both signatures of the verification contract were called and both threw.
ProofCheckErrored(p) ==
  \E k \in 1..Len(trace[p]) :
    /\ trace[p][k] = "verifyWeb2Json"
    /\ k < Len(trace[p])
    /\ trace[p][k + 1] \in Threw

\* C17: when the call to the verification contract errors, the verification
\* run does not end by throwing: it goes on, records a null verdict for the
\* proof with the error, and writes its report.
C17_PolicyErrorIsIndeterminate ==
  \A p \in Procs :
    ProofCheckErrored(p) =>
      /\ pc[p] # "failed"
      /\ Terminated(p) => Ops(p) \cap Artifacts # {}

IsPrefix(a, b) == Len(a) <= Len(b) /\ \A k \in 1..Len(a) : a[k] = b[k]

\* C18: once executedAttestations[h] is true it is true in every later state,
\* and a RewardExecuted record, once emitted, is never changed or removed:
\* neither executeReward nor setOwner touches an existing record.
C18_RecordNeverUpdatedOrDeleted ==
  [][/\ \A h \in Hashes : executedAttestations[h] => executedAttestations'[h]
     /\ IsPrefix(events, events')]_vars

\* A reward was recorded for a hash and, in a later block, the owner was
\* changed; the record still stands and the event is still the one emitted.
C18_Witness ==
  \E i, j \in 1..Len(txs) :
    /\ txs[i].fn = "executeReward" /\ txs[i].status = "success"
    /\ txs[j].fn = "setOwner" /\ txs[j].status = "success"
    /\ txs[j].blockNumber > txs[i].blockNumber
    /\ owner = txs[j].arg /\ owner # txs[i].from
    /\ executedAttestations[txs[i].arg]
    /\ Len(events) = 1

\* C19: the reward call a run of the reward gate sends carries, as its
\* attestationTxHash argument, the hash of the attestation transaction that
\* this run checked.
C19_RewardKeyedByVerifiedAttestation ==
  \A i \in 1..Len(txs) :
    txs[i].by \in Procs => txs[i].arg = loc[txs[i].by].attestation.txHash

\* Was a range parsed from the url, and is its end after its start?
RangeParsed(url) ==
  /\ url.marker
  /\ Len(url.chunks) >= 2
  /\ DateParse(url.chunks[1]) # -1
  /\ DateParse(url.chunks[2]) # -1
RangeEndsAfterStart(url) == DateParse(url.chunks[2]) > DateParse(url.chunks[1])

\* C20: timestampValid is the conjunction of (a) the claim's lower timestamp
\* bound is zero or the attestation block's timestamp is at or after it and
\* (b) no range was parsed from the request url or the parsed end is strictly
\* after the parsed start; an end equal to the start fails.
C20_TimestampValid ==
  (fnName = "timestampValid" /\ fnOut # <<>>) =>
    /\ fnOut[1] <=>
         /\ fnIn.lowestUsedTimestamp = 0 \/ fnIn.blockTimestamp >= fnIn.lowestUsedTimestamp
         /\ ~RangeParsed(fnIn.url) \/ RangeEndsAfterStart(fnIn.url)
    /\ (RangeParsed(fnIn.url) /\ fnIn.url.chunks[1] = fnIn.url.chunks[2]) => ~fnOut[1]

\* The lower bound is met exactly, but the queried range ends when it starts.
C20_Witness ==
  /\ fnName = "timestampValid"
  /\ fnOut # <<>>
  /\ fnIn.lowestUsedTimestamp = 10
  /\ fnIn.blockTimestamp = 10
  /\ RangeParsed(fnIn.url)
  /\ fnIn.url.chunks[1] = fnIn.url.chunks[2]
  /\ ~fnOut[1]

LowerBoundMet(a) == a.lowestUsedTimestamp = 0 \/ a.blockTimestamp >= a.lowestUsedTimestamp

\* C21: a request url whose time range is absent or malformed (no range
\* marker, fewer than two range segments, a start or an end that is no date)
\* never makes the time-window check fail: the check then passes exactly when
\* the lower timestamp bound is met. The range makes the check fail only when
\* it was parsed and its end is not after its start.
C21_MalformedRangeNeverFails ==
  (fnName = "timestampValid" /\ fnOut # <<>>) =>
    /\ ~RangeParsed(fnIn.url) => (fnOut[1] <=> LowerBoundMet(fnIn))
    /\ (LowerBoundMet(fnIn) /\ ~fnOut[1]) =>
         (RangeParsed(fnIn.url) /\ DateParse(fnIn.url.chunks[2]) <= DateParse(fnIn.url.chunks[1]))

\* The url carries the marker and a start date but an end that is no date,
\* and the check passes.
C21_Witness ==
  /\ fnName = "timestampValid"
  /\ fnOut # <<>>
  /\ fnIn.url.marker
  /\ Len(fnIn.url.chunks) = 2
  /\ DateParse(fnIn.url.chunks[1]) # -1
  /\ DateParse(fnIn.url.chunks[2]) = -1
  /\ fnIn.lowestUsedTimestamp = 10
  /\ fnIn.blockTimestamp = 10
  /\ fnOut[1]

\* The spellings of the two settings that the selector recognises.
SaysSimulation == {"1", " TRUE ", "Yes", "simulation"}
SaysReal == {"0", "OFF", "Real"}
ModeIsSimulation == {"simulation", " simulation ", "SIMULATION"}

\* C22: getAttestationMode returns exactly one of simulation and real, so
\* exactly one of assertSimulationMode and assertRealMode passes; a recognised
\* USE_SIMULATION decides alone; otherwise the mode is simulation only when
\* ATTESTATION_MODE spells simulation, and real when nothing is configured or
\* ATTESTATION_MODE is not recognised.
C22_ModeIsSimulationOrReal ==
  (fnName = "getAttestationMode" /\ fnOut # <<>>) =>
    /\ fnOut[1].mode \in {"simulation", "real"}
    /\ fnOut[1].simulationPasses <=> fnOut[1].mode = "simulation"
    /\ fnOut[1].realPasses <=> fnOut[1].mode = "real"
    /\ fnOut[1].simulationPasses # fnOut[1].realPasses
    /\ fnIn.USE_SIMULATION \in SaysSimulation => fnOut[1].mode = "simulation"
    /\ fnIn.USE_SIMULATION \in SaysReal => fnOut[1].mode = "real"
    /\ fnIn.USE_SIMULATION \notin SaysSimulation \cup SaysReal =>
         (fnOut[1].mode = "simulation" <=> fnIn.ATTESTATION_MODE \in ModeIsSimulation)

\* USE_SIMULATION says real in capitals while ATTESTATION_MODE says simulation:
\* the mode is real and only assertRealMode passes.
C22_Witness ==
  /\ fnName = "getAttestationMode"
  /\ fnOut # <<>>
  /\ fnIn.USE_SIMULATION = "OFF"
  /\ fnIn.ATTESTATION_MODE = "SIMULATION"
  /\ fnOut[1].mode = "real"
  /\ fnOut[1].realPasses
  /\ ~fnOut[1].simulationPasses

\* The run p polls the reward transaction a wallet signed: --execute with
\* SIGNER_MODE=metamask and REWARD_TX_HASH naming a mined transaction.
Polls(p) ==
  /\ entry[p] = "reward"
  /\ env[p].DRY_RUN = "0"
  /\ signerMode(env[p].SIGNER_MODE) = "metamask"
  /\ env[p].REWARD_TX_HASH \in 1..Len(txs)
  /\ txs[env[p].REWARD_TX_HASH].status # "pending"
ReadsHeight(p) == pc[p] = "rf_poll_block" /\ pc'[p] # "rf_poll_block"

\* C23: a run of the reward gate that polls a prior submission never submits
\* a transaction; when it reads the chain height, it ends with the retryable
\* error PendingConfirmation if the transaction has fewer than the required
\* confirmations, and with success if it has at least that many.
C23_PollingIsPendingThenSuccess ==
  [][\A p \in Procs :
       /\ Polls(p)' => TxsBy(p)' = {}
       /\ (Polls(p) /\ ReadsHeight(p)) =>
            LET confirmations == height - txs[env[p].REWARD_TX_HASH].blockNumber + 1
                required == IF env[p].CONFIRMATIONS = "2" THEN 2 ELSE DEFAULT_CONFIRMATIONS IN
            IF confirmations < required
            THEN pc'[p] = "failed" /\ result'[p].error = "PendingConfirmation"
            ELSE /\ pc'[p] = "done"
                 /\ result'[p].kind = "rewardConfirmed"
                 /\ result'[p].rewardTx = env[p].REWARD_TX_HASH]_vars

\* The first invocation found the wallet's transaction one confirmation deep
\* and ended with PendingConfirmation; the second invocation, one block later,
\* reported success; neither sent a transaction.
C23_Witness ==
  /\ scn = "repoll"
  /\ Polls("p1") /\ Polls("p2")
  /\ env["p1"].REWARD_TX_HASH = env["p2"].REWARD_TX_HASH
  /\ pc["p1"] = "failed" /\ result["p1"].error = "PendingConfirmation"
  /\ pc["p2"] = "done" /\ result["p2"].kind = "rewardConfirmed"
  /\ TxsBy("p1") \cup TxsBy("p2") = {}
  /\ \A i \in 1..Len(txs) : txs[i].by = "wallet"

\* How often the log of the run p holds the call op.
Calls(p, op) == Cardinality({k \in 1..Len(trace[p]) : trace[p][k] = op})
\* The verdicts the verification contract returned to the run p.
VerdictsReturned(p) ==
  {k \in 1..Len(trace[p]) : trace[p][k] \in {"returned true", "returned false"}}

\* The calls of the log of p that follow its k-th entry.
After(p, k) == {trace[p][j] : j \in (k + 1)..Len(trace[p])}
\* How often the run p compared the chain id, and how often it computed the
\* confirmation depth of the attestation transaction (a block number read
\* after run_reward_flow's getFeeData is a poll on the reward transaction).
ChainIdChecks(p) == Calls(p, "getNetwork")
DepthChecks(p) ==
  Cardinality({k \in 1..Len(trace[p]) :
                 /\ trace[p][k] = "getBlockNumber"
                 /\ "getFeeData" \notin {trace[p][j] : j \in 1..k}})

\* C24 as claimed: within one run nothing is retried, each policy check
\* (chain identity, confirmation depth, proof validity, payload integrity,
\* time window) is evaluated at most once, and the reward call is submitted at
\* most once.
C24_EachCheckEvaluatedOnce ==
  \A p \in Procs :
    /\ Calls(p, "getNetwork") <= 1
    /\ DepthChecks(p) <= 1
    /\ Calls(p, "verifyJsonApi") <= 1
    /\ Calls(p, "verifyWeb2Json") <= 1
    /\ Cardinality(VerdictsReturned(p)) <= 1
    /\ Calls(p, "getBlock") <= 1
    /\ Calls(p, "writeReport") <= 1
    /\ Calls(p, "sendTransaction") <= 1
    /\ Cardinality(TxsBy(p)) <= 1

\* C24 as amended: within one run a negative or indeterminate verdict on the
\* proof and a ledger rejection of the reward call are never retried:
\* checkAttestation evaluates each policy check at most once (each
\* verification signature is called at most once and none after a returned
\* verdict; payload integrity and the time window are computed once), and at
\* most one reward call is submitted. The script that calls checkAttestation
\* evaluates the chain identity (run_reward_flow, inspect) and the
\* confirmation depth (inspect) once more itself, so a run evaluates these
\* at most twice, the chain identity never again after a mismatch. A run that
\* has failed makes no further call and sends nothing.
C24_NoRetryWithinARun ==
  [][\A p \in Procs :
       /\ (/\ Calls(p, "verifyJsonApi") <= 1
           /\ Calls(p, "verifyWeb2Json") <= 1
           /\ Cardinality(VerdictsReturned(p)) <= 1
           /\ \A k \in VerdictsReturned(p) :
                After(p, k) \cap {"verifyJsonApi", "verifyWeb2Json"} = {}
           /\ Calls(p, "getBlock") <= 1
           /\ Calls(p, "writeReport") <= 1
           /\ Calls(p, "sendTransaction") <= 1
           /\ Cardinality(TxsBy(p)) <= 1
           /\ ChainIdChecks(p) <= (IF entry[p] = "check" THEN 1 ELSE 2)
           /\ DepthChecks(p) <= (IF entry[p] = "inspect" THEN 2 ELSE 1)
           /\ ChainIdChecks(p) = 2 => ~ChainDiffers(p)
           /\ result[p].error = "ChainMismatch" => ChainIdChecks(p) = 1)'
       /\ pc[p] = "failed" =>
            /\ pc'[p] = "failed"
            /\ trace'[p] = trace[p]
            /\ result'[p] = result[p]
            /\ TxsBy(p)' = TxsBy(p)]_vars

\* The run's reward call was mined and reverted: the run ended with
\* RejectedByLedger, having sent that one transaction and no other, after one
\* verdict on the proof and two comparisons of the chain id.
C24_Witness ==
  \E p \in Procs :
    /\ entry[p] = "reward"
    /\ pc[p] = "failed"
    /\ result[p].error = "RejectedByLedger"
    /\ Calls(p, "sendTransaction") = 1
    /\ Calls(p, "waitReceipt") = 1
    /\ \E i \in TxsBy(p) : txs[i].status = "reverted" /\ TxsBy(p) = {i}
    /\ Cardinality(VerdictsReturned(p)) = 1
    /\ ChainIdChecks(p) = 2
    /\ DepthChecks(p) = 1

\* The attestation transaction the run p resolved, once it asked the ledger for it.
Resolved(p) == IF entry[p] = "inspect" THEN loc[p].inspection.txHash ELSE loc[p].txHash
AskedLedger(p) == "getTransaction" \in Ops(p)
NoVerdict(p) ==
  /\ Ops(p) \cap {"verifyJsonApi", "verifyWeb2Json"} = {}
  /\ pc[p] = "failed"

\* C25: input resolution fails with an error of its own for each cause: an
\* unknown transaction ends the run with TransactionNotFound, a transaction
\* without a receipt with ReceiptPending, an absent proof artifact with
\* ProofMissing; in each case no policy verdict was produced.
C25_DistinctResolutionErrors ==
  \A p \in Procs :
    /\ (AskedLedger(p) /\ ~AttTx(Resolved(p)).known) =>
         NoVerdict(p) /\ result[p].error = "TransactionNotFound"
    /\ (AskedLedger(p) /\ AttTx(Resolved(p)).known /\ ~AttTx(Resolved(p)).receipt) =>
         NoVerdict(p) /\ result[p].error = "ReceiptPending"
    /\ (entry[p] # "inspect" /\ pc[p] = "failed" /\ "requestFee" \in Ops(p)
        /\ "readProof" \notin Ops(p)) =>
         NoVerdict(p) /\ result[p].error = "ProofMissing"

\* C26: whenever an expected digest is configured, the payload-integrity check
\* passes only if a digest was recomputed from the data artifact and that digest
\* equals the expected one; with the data artifact missing it does not pass.
C26_ExpectedDigestIsEnforced ==
  (/\ fnName = "validatePayloadHash"
   /\ fnOut # <<>>
   /\ fnIn.expectedMic \notin {Unset, ""}
   /\ fnOut[1].payloadHashValid) =>
    /\ fnIn.apiDigest # "none"
    /\ fnOut[1].computedMic # "null"
    /\ LowerHex(fnOut[1].computedMic) = LowerHex(fnIn.expectedMic)

\* The transaction i is executed in this step.
Executed(i) == txs[i].status = "pending" /\ txs'[i].status # "pending"
\* The call must be rejected: its sender is not the current owner, or it names
\* the zero address as new owner, or a hash that was executed already.
MustRevert(tx) ==
  \/ tx.from # owner
  \/ tx.fn = "setOwner" /\ tx.arg = ZeroAddress
  \/ tx.fn = "executeReward" /\ executedAttestations[tx.arg]

\* C27: on RewardExecutor a call by any address other than the current owner,
\* and any call that reverts (zero new owner, hash already executed), leaves
\* owner and executedAttestations unchanged and emits no event; a call that
\* does not revert has exactly its own effect, so that after setOwner(n)
\* succeeds the owner is n and only n executes rewards.
C27_RevertsChangeNothing ==
  [][\A i \in 1..Len(txs) :
       Executed(i) =>
         IF MustRevert(txs[i])
         THEN /\ txs'[i].status = "reverted"
              /\ UNCHANGED <<owner, executedAttestations, events>>
         ELSE /\ txs'[i].status = "success"
              /\ txs[i].fn = "setOwner" =>
                   owner' = txs[i].arg /\ UNCHANGED <<executedAttestations, events>>
              /\ txs[i].fn = "executeReward" =>
                   /\ owner' = owner
                   /\ executedAttestations' = [executedAttestations EXCEPT ![txs[i].arg] = TRUE]
                   /\ Len(events') = Len(events) + 1]_vars

\* The owner a1 handed the contract to a2; a reward call a1 sent afterwards
\* was rejected and recorded nothing.
C27_Witness ==
  \E i, j \in 1..Len(txs) :
    /\ txs[i].fn = "setOwner" /\ txs[i].status = "success"
    /\ txs[i].from = "a1" /\ txs[i].arg = "a2"
    /\ txs[j].fn = "executeReward" /\ txs[j].status = "reverted"
    /\ txs[j].from = "a1"
    /\ txs[j].blockNumber > txs[i].blockNumber
    /\ owner = "a2"
    /\ events = <<>>
    /\ \A h \in Hashes : ~executedAttestations[h]

\* The run p holds a positive answer of the verification contract and is about
\* to report it.
VerifiedPositive(p) == pc[p] = "ca_hash" /\ loc[p].verificationPassed

\* C28: a positive verification result for the attestation transaction T is
\* obtained only from the proof of the request submitted in T, never from a
\* valid proof of another request.
C28_ProofBelongsToTransaction ==
  \A p \in Procs : VerifiedPositive(p) => loc[p].proof.requestOf = loc[p].txHash

\* The run p produced a verification result.
ProducedResult(p) == loc[p].attestation # NoAttestation
TargetMismatched(p) ==
  \/ result[p].error = "TargetMismatch"
  \/ entry[p] = "inspect" /\ pc[p] = "done" /\ reports[InspectOutPath].verificationError = "TargetMismatch"

\* C29: a verification result is produced only for a transaction whose
\* recipient is the attestation contract address the operator configured, on
\* every entry path; on a mismatch checkAttestation throws before the proof is
\* verified and writes no report.
C29_ResultOnlyForConfiguredTarget ==
  \A p \in Procs :
    /\ (OneWorld /\ ProducedResult(p)) =>
         AttTx(loc[p].attestation.txHash).to = world.FDC_ATTESTATION_CONTRACT
    /\ TargetMismatched(p) =>
         Ops(p) \cap {"readProof", "verifyJsonApi", "verifyWeb2Json", "writeReport"} = {}

\* The polling loop of fetch_da_proof was entered, and has ended.
LoopEntered == fetch.i >= 1
LoopEnded == LoopEntered /\ fetch.stage \in {"written", "failed"}
AttemptsAllowed ==
  IF maxAttemptsOf(fetch.MAX_ATTEMPTS) < 0 THEN 0 ELSE maxAttemptsOf(fetch.MAX_ATTEMPTS)

\* C30: the proof-polling loop of fetch_da_proof performs at most maxAttempts
\* iterations and ends in one of two ways: by writing the proof artifact,
\* which happens only for a successful response that carries a non-empty proof
\* array, or with the proof-not-available error after the last attempt.
C30_PollingEndsWithProofOrNotAvailable ==
  /\ LoopEntered => fetch.i <= AttemptsAllowed + 1
  /\ fetch.written # <<>> =>
       /\ fetch.stage = "written"
       /\ fetch.written[1].response.ok
       /\ fetch.written[1].response.proofIsArray
       /\ fetch.written[1].response.proofLength > 0
  /\ (LoopEnded /\ fetch.stage = "failed") =>
       /\ fetch.error = "ProofNotAvailable"
       /\ fetch.i = AttemptsAllowed + 1

====
